---- MODULE Spec2Model ----
(***************************************************************************)
(* Model of src/NewMainV4.js (AI Study Assistant).                         *)
(*                                                                         *)
(* renderTextWithLatex(text) splits a text into plain-text spans and       *)
(* KaTeX-rendered spans with the regular expression                        *)
(*   /(\$\$)([\s\S]*?)(\$\$)|(\$)([\s\S]*?)(\$)/g                          *)
(* Strings are sequences of one-character strings; offsets are the         *)
(* 0-based offsets of JavaScript.                                          *)
(***************************************************************************)
EXTENDS Integers, Sequences, FiniteSets, TLC

VARIABLES
    text,         \* the argument of renderTextWithLatex
    katexLoaded,  \* typeof window.katex !== 'undefined'
    pc,           \* "call" (entered), "loop" (in the while loop), "done" (returned)
    lastIndex,    \* let lastIndex
    parts,        \* const parts = []
    result,       \* the children of the returned fragment
    katexCalls,   \* the calls the current call made to window.katex.renderToString
    katexThrew,   \* for each of katexCalls, whether renderToString threw
    console,      \* the console.warn / console.error diagnostics of the current call
    history       \* the calls of renderTextWithLatex that have returned, in order

renderVars == <<text, katexLoaded, pc, lastIndex, parts, result, katexCalls,
                katexThrew, console, history>>

\* StudyAssistantPage: the text-generation requests
VARIABLES
    inputs,         \* the text fields: noteInput, studyGoalInput, quizInput, ...
    loading,        \* isLoading, isTransforming, isQuizLoading, ...
    outputs,        \* summarizedNote, transformedContent, ..., suggestedResourceCategory
    editedOutputs,  \* editedSummarizedNote, editedTransformedContent, ...
    quizzes,        \* the parsed question-answer pairs
    currentQuizIndex,
    requests,       \* the calls of callGeminiAPI that have not returned, each
                    \* with its caller, its await point and its prompt
    events,        \* number of user events (onChange, onClick, mount) handled so far
    mounted,        \* whether the effect that fetches the daily tip has run
    uncaught        \* the handlers whose promise rejected, nothing catching it

geminiVars == <<inputs, loading, outputs, editedOutputs, quizzes,
                currentQuizIndex, requests, events, mounted, uncaught>>

\* the document store and the state of the page derived from it
VARIABLES
    auth,           \* "pending", "ready" (db and userId set, isAuthReady) or "failed"
    sTasks,         \* the documents of the tasks collection
    sResources,     \* the documents of the resources collection
    sMetrics,       \* the metrics/gamification document
    sLogs,          \* the documents of the pomodoro_logs collection
    fresh,          \* per listener: a snapshot is waiting to be delivered
    pending,        \* the store operations that have not settled
    nextOp,         \* number of store operations the handlers issued so far
    tasks,
    totalTasksCompleted,
    calendarEvents,
    resources,
    userPoints,
    studyStreaks,
    earnedBadges,
    lastStudyDate,
    totalStudyTime,
    logged          \* the messages given to console.error

storeVars == <<auth, sTasks, sResources, sMetrics, sLogs, fresh, pending, nextOp,
               tasks, totalTasksCompleted, calendarEvents, resources, userPoints,
               studyStreaks, earnedBadges, lastStudyDate, totalStudyTime, logged>>

\* StudyAssistantPage: the Pomodoro timer
VARIABLES
    timerMinutes,
    timerSeconds,
    isActive,            \* the interval of the timer effect is running
    isBreak,
    currentSessionType

timerVars == <<timerMinutes, timerSeconds, isActive, isBreak, currentSessionType>>

\* StudyAssistantPage: voice input
VARIABLES
    isListening,
    recognitionRef,  \* recognitionRef.current: null, or the recognition object,
                     \* given by the field its onresult handler writes
    session          \* the listening session of the recognition object: the
                     \* field whose button started it, and its stage

voiceVars == <<isListening, recognitionRef, session>>

vars == <<renderVars, geminiVars, storeVars, timerVars, voiceVars>>

----------------------------------------------------------------------------
(* Bounds *)

MaxLen == 7

\* length of the texts of the runs followed to their end
MaxScan == 5

\* length of the texts and number of calls, where several calls are made
MaxCallLen == 2

MaxCalls == 3

\* length of the pieces the composed texts are made of
MaxPiece == 1

\* number of user events in a run
MaxEvents == 3

\* number of store operations the handlers issue in a run
MaxOps == 1

Alphabet == {"$", "x", "\n"}

Texts == UNION {[1..n -> Alphabet] : n \in 0..MaxLen}

----------------------------------------------------------------------------
(* JavaScript string primitives *)

Length(t) == Len(t)

CharAt(t, i) == t[i + 1]

Substring(t, a, b) == SubSeq(t, a + 1, b)

SetMin(S) == CHOOSE m \in S : \A n \in S : m <= n

SetMax(S) == CHOOSE m \in S : \A n \in S : m >= n

Undefined == <<"undefined">>

Null == [index |-> -1, lastIndex |-> 0, m0 |-> Undefined, m1 |-> Undefined,
         m2 |-> Undefined, m4 |-> Undefined, m5 |-> Undefined]

----------------------------------------------------------------------------
(* The regular expression latexRegex *)

AnyCharButNewline(c) == c # "\n"

\* [\s\S] matches every character, the newline included.
AnyChar(c) == TRUE

\* the offsets at which a closing \$\$ may start, after an opening \$\$ at i,
\* with only [\s\S] characters in between
DisplayClosers(t, i) ==
    {j \in (i + 2)..(Length(t) - 2) :
        /\ CharAt(t, j) = "$" /\ CharAt(t, j + 1) = "$"
        /\ \A k \in (i + 2)..(j - 1) : AnyChar(CharAt(t, k))}

\* the offsets of a closing \$ after an opening \$ at i
InlineClosers(t, i) ==
    {j \in (i + 1)..(Length(t) - 1) :
        /\ CharAt(t, j) = "$"
        /\ \A k \in (i + 1)..(j - 1) : AnyChar(CharAt(t, k))}

Greedy(S) == SetMax(S)

\* *? is non-greedy: the shortest content, the first closing delimiter
Lazy(S) == SetMin(S)

\* first alternative (\$\$)([\s\S]*?)(\$\$) anchored at offset i
DisplayAt(t, i) ==
    IF /\ i + 1 < Length(t)
       /\ CharAt(t, i) = "$" /\ CharAt(t, i + 1) = "$"
       /\ DisplayClosers(t, i) # {}
    THEN LET j == Lazy(DisplayClosers(t, i))
         IN [index |-> i, lastIndex |-> j + 2,
             m0 |-> Substring(t, i, j + 2),
             m1 |-> <<"$", "$">>, m2 |-> Substring(t, i + 2, j),
             m4 |-> Undefined, m5 |-> Undefined]
    ELSE Null

InlineAtOrEnd(t, i) ==
    IF i < Length(t) /\ CharAt(t, i) = "$"
    THEN LET closed == InlineClosers(t, i) # {}
             j == IF closed THEN Lazy(InlineClosers(t, i)) ELSE Length(t)
             e == IF closed THEN j + 1 ELSE j
         IN [index |-> i, lastIndex |-> e,
             m0 |-> Substring(t, i, e),
             m1 |-> Undefined, m2 |-> Undefined,
             m4 |-> <<"$">>, m5 |-> Substring(t, i + 1, j)]
    ELSE Null

\* second alternative (\$)([\s\S]*?)(\$) anchored at offset i
InlineAt(t, i) ==
    IF /\ i < Length(t)
       /\ CharAt(t, i) = "$"
       /\ InlineClosers(t, i) # {}
    THEN LET j == Lazy(InlineClosers(t, i))
         IN [index |-> i, lastIndex |-> j + 1,
             m0 |-> Substring(t, i, j + 1),
             m1 |-> Undefined, m2 |-> Undefined,
             m4 |-> <<"$">>, m5 |-> Substring(t, i + 1, j)]
    ELSE Null

InlineFirstAt(t, i) ==
    IF InlineAt(t, i) # Null THEN InlineAt(t, i) ELSE DisplayAt(t, i)

\* the alternation a|b anchored at offset i: the left alternative is tried first
MatchAt(t, i) ==
    IF DisplayAt(t, i) # Null THEN DisplayAt(t, i) ELSE InlineAt(t, i)

\* latexRegex.exec(text) with latexRegex.lastIndex = from: the match at the
\* leftmost offset >= from where the expression matches, or null
Exec(t, from) ==
    LET S == {i \in from..(Length(t) - 1) : MatchAt(t, i) # Null}
    IN IF S = {} THEN Null ELSE MatchAt(t, SetMin(S))

----------------------------------------------------------------------------
(* renderTextWithLatex *)

Span(kind, key, content, displayMode, fullMatch) ==
    [kind |-> kind, key |-> key, content |-> content,
     displayMode |-> displayMode, fullMatch |-> fullMatch]

PrecedingTextOffByOne(t, from, index) ==
    IF index > from + 1
    THEN <<Span("text-plain", from + 1, Substring(t, from + 1, index), FALSE,
                Substring(t, from + 1, index))>>
    ELSE <<>>

\* if (match.index > lastIndex) parts.push(<span key=text-plain-lastIndex>...)
PrecedingText(t, from, index) ==
    IF index > from
    THEN <<Span("text-plain", from, Substring(t, from, index), FALSE,
                Substring(t, from, index))>>
    ELSE <<>>

RemainingTextButLast(t, from) ==
    IF from < Length(t) - 1
    THEN <<Span("text-plain-end", from, Substring(t, from, Length(t)), FALSE,
                Substring(t, from, Length(t)))>>
    ELSE <<>>

\* if (lastIndex < text.length) parts.push(<span key=text-plain-end-lastIndex>...)
RemainingText(t, from) ==
    IF from < Length(t)
    THEN <<Span("text-plain-end", from, Substring(t, from, Length(t)), FALSE,
                Substring(t, from, Length(t)))>>
    ELSE <<>>

LatexContentFullMatch(match) == match.m0

\* let latexContent; if (match[1] === '$$') ... else if (match[4] === '$') ...
LatexContent(match) ==
    IF match.m1 = <<"$", "$">> THEN match.m2
    ELSE IF match.m4 = <<"$">> THEN match.m5
    ELSE Undefined

DisplayModeNeverSet(match) == FALSE

\* let displayMode = false; set to true only for the \$\$ alternative
DisplayMode(match) == match.m1 = <<"$", "$">>

NextLastIndexOneDelimiter(match) ==
    match.index + Length(LatexContent(match)) + 2

\* lastIndex = latexRegex.lastIndex: the offset just after the match
NextLastIndex(match) == match.lastIndex

----------------------------------------------------------------------------
(* StudyAssistantPage: state *)

pageVars == <<geminiVars, storeVars, timerVars, voiceVars>>

\* a string is a sequence of the blocks that \n\n separates
EmptyString == <<>>

BlankString == <<" ">>

InputNames == {"noteInput", "studyGoalInput", "quizInput", "explanationQuestion",
               "resourceTitle", "resourceLink", "taskInput", "taskDueDate"}

Flags == {"isLoading", "isTransforming", "isQuizLoading", "isExplanationLoading",
          "isDailyTipLoading", "isProgressLoading", "isResourceCategoryLoading"}

Targets == {"dailyTip", "summarizedNote", "transformedContent", "studyPlanOutput",
            "quizOutput", "explanationAnswer", "progressInsight",
            "suggestedResourceCategory"}

\* useState(...) of StudyAssistantPage
GeminiInit ==
    /\ inputs = [n \in InputNames |-> EmptyString]
    /\ loading = [f \in Flags |-> FALSE]
    /\ outputs = [t \in Targets |-> EmptyString]
    /\ editedOutputs = [t \in Targets |-> EmptyString]
    /\ quizzes = <<>>
    /\ currentQuizIndex = 0
    /\ requests = {}
    /\ events = 0
    /\ mounted = FALSE
    /\ uncaught = {}

\* null
NullValue == <<"null">>

\* the truthiness of a string, null or undefined
Truthy(v) == v \notin {EmptyString, NullValue, Undefined}

\* the listeners of the subscriptions effect
Listeners == {"tasks", "resources", "metrics", "pomodoro_logs"}

\* the metrics document; exists is docSnap.exists()
Metrics(exists, points, streaks, badges, last) ==
    [exists |-> exists, points |-> points, streaks |-> streaks,
     badges |-> badges, lastStudyDate |-> last]

NoMetrics == Metrics(FALSE, 0, 0, <<>>, NullValue)

\* the state of the page and a store holding ts, rs, m and ls
StoreInit(ts, rs, m, ls) ==
    /\ auth = "pending"
    /\ sTasks = ts
    /\ sResources = rs
    /\ sMetrics = m
    /\ sLogs = ls
    /\ fresh = [l \in Listeners |-> FALSE]
    /\ pending = {}
    /\ nextOp = 0
    /\ tasks = <<>>
    /\ totalTasksCompleted = 0
    /\ calendarEvents = <<>>
    /\ resources = <<>>
    /\ userPoints = 0
    /\ studyStreaks = 0
    /\ earnedBadges = <<>>
    /\ lastStudyDate = NullValue
    /\ totalStudyTime = 0
    /\ logged = <<>>

\* useState(25), useState(0), useState(false), useState(false),
\* useState('Pomodoro')
TimerInit ==
    /\ timerMinutes = 25
    /\ timerSeconds = 0
    /\ isActive = FALSE
    /\ isBreak = FALSE
    /\ currentSessionType = "Pomodoro"

\* no recognition object, and a recognition object that is not listening
NoRecognition == "null"

NoSession == [from |-> "null", stage |-> "idle"]

\* useState(false), useRef(null)
VoiceInit ==
    /\ isListening = FALSE
    /\ recognitionRef = NoRecognition
    /\ session = NoSession

PageInit ==
    /\ GeminiInit
    /\ StoreInit({}, {}, NoMetrics, <<>>)
    /\ TimerInit
    /\ VoiceInit

----------------------------------------------------------------------------
(* renderTextWithLatex: the call *)

RawFragmentNull(t) == <<>>

\* return <>{text}</>
RawFragment(t) == <<Span("raw", 0, t, FALSE, t)>>

KatexArgsInlineOnly(match) == <<LatexContent(match), FALSE>>

\* window.katex.renderToString(latexContent, {throwOnError: false, displayMode})
KatexArgs(match) == <<LatexContent(match), DisplayMode(match)>>

\* <span key=latex-index dangerouslySetInnerHTML={{__html: renderedHtml}} />
RenderedSpan(match) ==
    Span("latex", match.index, LatexContent(match), DisplayMode(match), match.m0)

ErrorSpanContentOnly(match) ==
    Span("latex-error", match.index, LatexContent(match), DisplayMode(match),
         LatexContent(match))

\* <span key=latex-error-index className=...>Error: {fullMatch}</span>
ErrorSpan(match) ==
    Span("latex-error", match.index, LatexContent(match), DisplayMode(match),
         match.m0)

\* the record of a call that has returned
Returns(t, loaded, calls, threw, res) ==
    [text |-> t, katexLoaded |-> loaded, calls |-> calls, threw |-> threw,
     result |-> res]

InitCall(texts) ==
    /\ text \in texts
    /\ katexLoaded \in BOOLEAN
    /\ pc = "call"
    /\ lastIndex = 0
    /\ parts = <<>>
    /\ result = <<>>
    /\ katexCalls = <<>>
    /\ katexThrew = <<>>
    /\ console = <<>>
    /\ history = <<>>
    /\ PageInit

Init == InitCall(Texts)

\* if (typeof window.katex === 'undefined') { console.warn(...); return <>{text}</>; }
KatexUndefined ==
    /\ pc = "call"
    /\ ~katexLoaded
    /\ console' = Append(console, "warn")
    /\ result' = RawFragment(text)
    /\ history' = Append(history, Returns(text, katexLoaded, katexCalls, katexThrew, result'))
    /\ pc' = "done"
    /\ UNCHANGED <<text, katexLoaded, lastIndex, parts, katexCalls, katexThrew>>
    /\ UNCHANGED pageVars

EnterLoopSharedIndex ==
    /\ pc = "call"
    /\ katexLoaded
    /\ parts' = <<>>
    /\ lastIndex' = lastIndex
    /\ pc' = "loop"
    /\ UNCHANGED <<text, katexLoaded, result, katexCalls, katexThrew, console,
                   history>>
    /\ UNCHANGED pageVars

\* const parts = []; let lastIndex = 0; const latexRegex = /.../g;
EnterLoop ==
    /\ pc = "call"
    /\ katexLoaded
    /\ parts' = <<>>
    /\ lastIndex' = 0
    /\ pc' = "loop"
    /\ UNCHANGED <<text, katexLoaded, result, katexCalls, katexThrew, console,
                   history>>
    /\ UNCHANGED pageVars

\* one iteration of while ((match = latexRegex.exec(text)) !== null) { ... }
\* throws: whether window.katex.renderToString throws on this call
LoopIteration(throws) ==
    /\ pc = "loop"
    /\ LET match == Exec(text, lastIndex)
       IN /\ match # Null
          /\ katexCalls' = Append(katexCalls, KatexArgs(match))
          /\ katexThrew' = Append(katexThrew, throws)
          /\ IF throws
             THEN /\ console' = Append(console, "error")
                  /\ parts' = parts \o PrecedingText(text, lastIndex, match.index)
                        \o <<ErrorSpan(match)>>
             ELSE /\ console' = console
                  /\ parts' = parts \o PrecedingText(text, lastIndex, match.index)
                        \o <<RenderedSpan(match)>>
          /\ lastIndex' = NextLastIndex(match)
    /\ UNCHANGED <<text, katexLoaded, pc, result, history>>
    /\ UNCHANGED pageVars

\* exec returned null: the trailing text is pushed and the fragment returned
LoopExit ==
    /\ pc = "loop"
    /\ Exec(text, lastIndex) = Null
    /\ parts' = parts \o RemainingText(text, lastIndex)
    /\ result' = parts'
    /\ history' = Append(history, Returns(text, katexLoaded, katexCalls, katexThrew, result'))
    /\ pc' = "done"
    /\ UNCHANGED <<text, katexLoaded, lastIndex, katexCalls, katexThrew, console>>
    /\ UNCHANGED pageVars

Next ==
    \/ KatexUndefined
    \/ EnterLoop
    \/ \E throws \in BOOLEAN : LoopIteration(throws)
    \/ LoopExit

Spec == Init /\ [][Next]_vars

ScanTexts == UNION {[1..n -> Alphabet] : n \in 0..MaxScan}

InitRun == InitCall(ScanTexts)

\* the function is synchronous: once called it runs until it returns
SpecRun == InitRun /\ [][Next]_vars /\ WF_vars(Next)

----------------------------------------------------------------------------
(* Several calls, one per render of a component: the KaTeX script may have *)
(* finished loading in between.                                            *)

CallTexts == UNION {[1..n -> Alphabet] : n \in 0..MaxCallLen}

InitCalls == InitCall(CallTexts)

\* the next call of renderTextWithLatex(t); the locals of the previous call
\* are not reachable from it
NewCall(t, loaded) ==
    /\ pc = "done"
    /\ Len(history) < MaxCalls
    /\ katexLoaded => loaded
    /\ text' = t
    /\ katexLoaded' = loaded
    /\ pc' = "call"
    /\ result' = <<>>
    /\ katexCalls' = <<>>
    /\ katexThrew' = <<>>
    /\ console' = <<>>
    /\ UNCHANGED <<lastIndex, parts, history>>
    /\ UNCHANGED pageVars

NextCalls ==
    \/ Next
    \/ \E t \in CallTexts, loaded \in BOOLEAN : NewCall(t, loaded)

SpecCalls == InitCalls /\ [][NextCalls]_vars

----------------------------------------------------------------------------
(* Texts composed of a display block and an inline block between plain     *)
(* text, and the example of the specification.                             *)

PieceAlphabet == {"x", "\n"}

Pieces == UNION {[1..n -> PieceAlphabet] : n \in 0..MaxPiece}

PlainPieces == Pieces \ {<<>>}

Composed(p1, b1, p2, b2, p3) ==
    p1 \o <<"$", "$">> \o b1 \o <<"$", "$">> \o p2 \o <<"$">> \o b2 \o <<"$">> \o p3

ComposedTexts ==
    {Composed(p1, b1, p2, b2, p3) :
        p1 \in PlainPieces, b1 \in Pieces, p2 \in PlainPieces,
        b2 \in Pieces, p3 \in PlainPieces}

\* "Solve $$x^2$$ for x, given $a=1$."
ExampleText ==
    <<"S", "o", "l", "v", "e", " ", "$", "$", "x", "^", "2", "$", "$",
      " ", "f", "o", "r", " ", "x", ",", " ", "g", "i", "v", "e", "n", " ",
      "$", "a", "=", "1", "$", ".">>

InitComposed == InitCall(ComposedTexts \cup {ExampleText})

SpecComposed == InitComposed /\ [][Next]_vars

----------------------------------------------------------------------------
(* StudyAssistantPage: text generation (callGeminiAPI and its callers)     *)

Failed == <<"Failed to get AI response. Please try again.">>

NoResponse == <<"No response from AI.">>

\* texts the model may answer with: a category, two question-answer pairs
AiTexts == {<<"Mathematics.">>, <<"Q: q1\nA: a1", "Q: q2\nA: a2">>}

\* what the user types into a text field
TypedValues == {BlankString, <<"a">>}

\* String.prototype.trim
Trim(v) == IF v = BlankString THEN EmptyString ELSE v

\* the callers of callGeminiAPI
Handlers == {"fetchDailyTip", "handleSummarizeNote", "handleElaborateContent",
             "handleSimplifyContent", "handleRephraseContent",
             "handleGenerateStudyPlan", "handleGenerateQuiz",
             "handleGetExplanation", "handleSuggestResourceCategory",
             "handleGenerateProgressInsight"}

\* the setLoadingState each caller passes
HandlerFlag(h) ==
    CASE h = "fetchDailyTip" -> "isDailyTipLoading"
      [] h \in {"handleSummarizeNote", "handleGenerateStudyPlan"} -> "isLoading"
      [] h \in {"handleElaborateContent", "handleSimplifyContent",
                "handleRephraseContent"} -> "isTransforming"
      [] h = "handleGenerateQuiz" -> "isQuizLoading"
      [] h = "handleGetExplanation" -> "isExplanationLoading"
      [] h = "handleSuggestResourceCategory" -> "isResourceCategoryLoading"
      [] h = "handleGenerateProgressInsight" -> "isProgressLoading"

\* the state each caller stores the answer in
HandlerTarget(h) ==
    CASE h = "fetchDailyTip" -> "dailyTip"
      [] h = "handleSummarizeNote" -> "summarizedNote"
      [] h \in {"handleElaborateContent", "handleSimplifyContent",
                "handleRephraseContent"} -> "transformedContent"
      [] h = "handleGenerateStudyPlan" -> "studyPlanOutput"
      [] h = "handleGenerateQuiz" -> "quizOutput"
      [] h = "handleGetExplanation" -> "explanationAnswer"
      [] h = "handleSuggestResourceCategory" -> "suggestedResourceCategory"
      [] h = "handleGenerateProgressInsight" -> "progressInsight"

\* the text field each caller requires to be non-blank, "none" if none
HandlerInput(h) ==
    CASE h \in {"handleSummarizeNote", "handleElaborateContent",
                "handleSimplifyContent", "handleRephraseContent"} -> "noteInput"
      [] h = "handleGenerateStudyPlan" -> "studyGoalInput"
      [] h = "handleGenerateQuiz" -> "quizInput"
      [] h = "handleGetExplanation" -> "explanationQuestion"
      [] h = "handleSuggestResourceCategory" -> "resourceTitle"
      [] OTHER -> "none"

\* the message each caller shows for a blank text field
HandlerPlease(h) ==
    CASE h = "handleSummarizeNote" -> <<"Please enter some text to summarize.">>
      [] h = "handleElaborateContent" -> <<"Please enter some text to elaborate.">>
      [] h = "handleSimplifyContent" -> <<"Please enter some text to simplify.">>
      [] h = "handleRephraseContent" -> <<"Please enter some text to rephrase.">>
      [] h = "handleGenerateStudyPlan" ->
            <<"Please enter a study goal or topic to generate a plan.">>
      [] h = "handleGenerateQuiz" ->
            <<"Please provide some text to generate a quiz/flashcards from.">>
      [] h = "handleGetExplanation" ->
            <<"Please ask a question to get an explanation.">>
      [] h = "handleSuggestResourceCategory" ->
            <<"Please enter a resource title to get a category suggestion.">>
      [] OTHER -> EmptyString

\* disabled={...} of the button of each caller; the daily tip is fetched by
\* an effect that runs once, on mount
ButtonDisabled(h) ==
    CASE h = "fetchDailyTip" -> mounted
      [] h \in {"handleSummarizeNote", "handleElaborateContent",
                "handleSimplifyContent", "handleRephraseContent"} ->
            loading["isLoading"] \/ loading["isTransforming"]
      [] h = "handleGenerateStudyPlan" -> loading["isLoading"]
      [] h = "handleGenerateQuiz" -> loading["isQuizLoading"]
      [] h = "handleGetExplanation" -> loading["isExplanationLoading"]
      [] h = "handleSuggestResourceCategory" ->
            loading["isResourceCategoryLoading"]
                \/ Trim(inputs["resourceTitle"]) = EmptyString
      [] h = "handleGenerateProgressInsight" -> loading["isProgressLoading"]

\* the states that have an edited copy (the suggested category has none)
HasEditedCopy(target) == target # "suggestedResourceCategory"

\* the bodies response.json() may give: kind is "unparsable" (json() rejects),
\* "null", "noCandidates", "noParts", "noText" (parts[0] has no text) or "text"
Body(kind, t) == [kind |-> kind, text |-> t]

Bodies ==
    {Body(k, EmptyString) :
        k \in {"unparsable", "null", "noCandidates", "noParts", "noText"}}
    \cup {Body("text", t) : t \in AiTexts}

GeminiResultChecksText(body) ==
    CASE body.kind \in {"unparsable", "null"} -> Failed
      [] body.kind \in {"noCandidates", "noParts", "noText"} -> NoResponse
      [] body.kind = "text" -> body.text

\* const result = await response.json(); if (result.candidates && ...) return
\* result.candidates[0].content.parts[0].text; else return "No response from AI.";
\* catch: return "Failed to get AI response. Please try again."
GeminiResult(body) ==
    CASE body.kind \in {"unparsable", "null"} -> Failed
      [] body.kind \in {"noCandidates", "noParts"} -> NoResponse
      [] body.kind = "noText" -> Undefined
      [] body.kind = "text" -> body.text

LoadingAfterReturnOnSuccess(flags, flag, value) ==
    IF value \in {Failed, NoResponse} THEN flags
    ELSE [flags EXCEPT ![flag] = FALSE]

\* finally { setLoadingState(false); }
LoadingAfterReturn(flags, flag, value) == [flags EXCEPT ![flag] = FALSE]

\* pair.startsWith('Q:')
StartsWithQ(block) == block \in {"Q: q1\nA: a1", "Q: q2\nA: a2"}

\* pair.split('\nA: ').map(s => s.trim().substring(s.indexOf(':') + 1))
QuizPair(block) ==
    CASE block = "Q: q1\nA: a1" ->
            [question |-> " q1", answer |-> "a1", recall |-> "null",
             nextReview |-> "null"]
      [] block = "Q: q2\nA: a2" ->
            [question |-> " q2", answer |-> "a2", recall |-> "null",
             nextReview |-> "null"]

\* generatedContent.split('\n\n').filter(...).map(...)
QuizPairs(v) ==
    LET qs == SelectSeq(v, StartsWithQ)
    IN [i \in 1..Len(qs) |-> QuizPair(qs[i])]

\* block.replace(/[^a-zA-Z0-9\s]/g, '')
CleanBlock(block) ==
    CASE block = "Mathematics." -> "Mathematics"
      [] block = "Q: q1\nA: a1" -> "Q q1\nA a1"
      [] block = "Q: q2\nA: a2" -> "Q q2\nA a2"
      [] block = "Failed to get AI response. Please try again." ->
            "Failed to get AI response Please try again"
      [] block = "No response from AI." -> "No response from AI"
      [] OTHER -> block

\* category.replace(/[^a-zA-Z0-9\s]/g, '').trim()
Clean(v) == [i \in 1..Len(v) |-> CleanBlock(v[i])]

\* onChange of a text field; the title and the link of a resource also clear
\* the suggested category
TypeInput(name, v) ==
    /\ inputs[name] # v
    /\ events < MaxEvents
    /\ events' = events + 1
    /\ inputs' = [inputs EXCEPT ![name] = v]
    /\ outputs' = IF name \in {"resourceTitle", "resourceLink"}
                  THEN [outputs EXCEPT !["suggestedResourceCategory"] = EmptyString]
                  ELSE outputs
    /\ UNCHANGED <<loading, editedOutputs, quizzes, currentQuizIndex, requests,
                   mounted, uncaught>>
    /\ UNCHANGED <<renderVars, timerVars, voiceVars, storeVars>>

\* the values of the text fields the prompt of a caller is built from
Prompt(h) ==
    CASE h = "handleSuggestResourceCategory" ->
            <<inputs["resourceTitle"], inputs["resourceLink"]>>
      [] HandlerInput(h) # "none" -> <<inputs[HandlerInput(h)]>>
      [] OTHER -> <<>>

\* a caller up to its await callGeminiAPI(...), and callGeminiAPI up to its
\* await fetch(...)
StartRequest(h) ==
    /\ ~ButtonDisabled(h)
    /\ events < MaxEvents
    /\ events' = events + 1
    /\ mounted' = (mounted \/ h = "fetchDailyTip")
    /\ IF HandlerInput(h) # "none" /\ Trim(inputs[HandlerInput(h)]) = EmptyString
       THEN /\ outputs' = [outputs EXCEPT ![HandlerTarget(h)] = HandlerPlease(h)]
            /\ editedOutputs' =
                  IF HasEditedCopy(HandlerTarget(h))
                  THEN [editedOutputs EXCEPT ![HandlerTarget(h)] = HandlerPlease(h)]
                  ELSE editedOutputs
            /\ quizzes' = IF h = "handleGenerateQuiz" THEN <<>> ELSE quizzes
            /\ UNCHANGED <<loading, requests>>
       ELSE /\ loading' = [loading EXCEPT ![HandlerFlag(h)] = TRUE]
            /\ requests' = requests
                  \cup {[handler |-> h, stage |-> "fetch", prompt |-> Prompt(h)]}
            /\ UNCHANGED <<outputs, editedOutputs, quizzes>>
    /\ UNCHANGED <<inputs, currentQuizIndex, uncaught>>
    /\ UNCHANGED <<renderVars, timerVars, voiceVars, storeVars>>

\* callGeminiAPI returns value to caller h, and h runs to its end
Return(r, value) ==
    LET h == r.handler
        target == HandlerTarget(h)
    IN /\ loading' = LoadingAfterReturn(loading, HandlerFlag(h), value)
       /\ requests' = requests \ {r}
       /\ CASE h = "handleGenerateQuiz" ->
                 \* setQuizOutput, setEditedQuizOutput, then generatedContent.split
                 /\ outputs' = [outputs EXCEPT ![target] = value]
                 /\ editedOutputs' = [editedOutputs EXCEPT ![target] = value]
                 /\ IF value = Undefined
                    THEN /\ uncaught' = uncaught \cup {h}
                         /\ UNCHANGED <<quizzes, currentQuizIndex>>
                    ELSE /\ quizzes' = QuizPairs(value)
                         /\ currentQuizIndex' = 0
                         /\ UNCHANGED uncaught
            [] h = "handleSuggestResourceCategory" ->
                 \* setSuggestedResourceCategory(category.replace(...).trim())
                 /\ IF value = Undefined
                    THEN /\ uncaught' = uncaught \cup {h}
                         /\ UNCHANGED outputs
                    ELSE /\ outputs' = [outputs EXCEPT ![target] = Clean(value)]
                         /\ UNCHANGED uncaught
                 /\ UNCHANGED <<editedOutputs, quizzes, currentQuizIndex>>
            [] OTHER ->
                 /\ outputs' = [outputs EXCEPT ![target] = value]
                 /\ editedOutputs' = [editedOutputs EXCEPT ![target] = value]
                 /\ UNCHANGED <<quizzes, currentQuizIndex, uncaught>>
       /\ UNCHANGED <<inputs, events, mounted>>
       /\ UNCHANGED <<renderVars, timerVars, voiceVars, storeVars>>

\* await fetch(...) rejects: catch, finally
FetchRejects(r) ==
    /\ r \in requests /\ r.stage = "fetch"
    /\ Return(r, Failed)

\* await fetch(...) resolves with a response, response.ok or not
FetchResponds(r, ok) ==
    /\ r \in requests /\ r.stage = "fetch"
    /\ requests' = (requests \ {r})
          \cup {[r EXCEPT !.stage = IF ok THEN "json" ELSE "errorJson"]}
    /\ UNCHANGED <<inputs, loading, outputs, editedOutputs, quizzes,
                   currentQuizIndex, events, mounted, uncaught>>
    /\ UNCHANGED <<renderVars, timerVars, voiceVars, storeVars>>

\* !response.ok: await response.json() rejects, or resolves and the Error is
\* thrown; catch, finally
ErrorResponse(r) ==
    /\ r \in requests /\ r.stage = "errorJson"
    /\ Return(r, Failed)

\* response.ok: await response.json() settles with body
OkResponse(r, body) ==
    /\ r \in requests /\ r.stage = "json"
    /\ Return(r, GeminiResult(body))

Stages == {"fetch", "json", "errorJson"}

\* the text fields of the generation features
GeminiInputs == InputNames \ {"taskInput", "taskDueDate"}

\* the page alone: the renderer is not running
InitPage ==
    /\ text = <<>>
    /\ katexLoaded = TRUE
    /\ pc = "done"
    /\ lastIndex = 0
    /\ parts = <<>>
    /\ result = <<>>
    /\ katexCalls = <<>>
    /\ katexThrew = <<>>
    /\ console = <<>>
    /\ history = <<>>
    /\ PageInit

NextGemini ==
    \/ \E name \in GeminiInputs, v \in TypedValues : TypeInput(name, v)
    \/ \E h \in Handlers : StartRequest(h)
    \/ \E r \in requests : FetchRejects(r)
    \/ \E r \in requests, ok \in BOOLEAN : FetchResponds(r, ok)
    \/ \E r \in requests : ErrorResponse(r)
    \/ \E r \in requests, body \in Bodies : OkResponse(r, body)

SpecGemini == InitPage /\ [][NextGemini]_vars

----------------------------------------------------------------------------
(* StudyAssistantPage: the document store, its listeners and its handlers  *)

\* array.includes(x)
Includes(seq, x) == \E i \in 1..Len(seq) : seq[i] = x

\* value || null
OrNull(v) == IF Truthy(v) THEN v ELSE NullValue

\* a date or date-time string is a sequence of blocks, "T" being one block;
\* value.split('T')[0]
DateKey(v) ==
    LET ts == {i \in 1..Len(v) : v[i] = "T"}
    IN IF ts = {} THEN v ELSE SubSeq(v, 1, SetMin(ts) - 1)

\* the documents a store may hold when the page is opened
Task1 == [id |-> 1, createdAt |-> 1, text |-> <<"a">>, completed |-> FALSE,
          dueDate |-> <<"d1">>]

Task2 == [id |-> 2, createdAt |-> 2, text |-> <<"a">>, completed |-> FALSE,
          dueDate |-> NullValue]

Res1 == [id |-> 1, title |-> <<"a">>, url |-> <<"a">>,
         category |-> <<"Uncategorized">>, createdAt |-> 1]

Log1 == [date |-> <<"d1", "T", "10:00">>, duration |-> 25, type |-> "pomodoro"]

InitialDocs == 2

\* a store never used, opened with a blank resource form, and the store of a
\* user with two tasks, a resource and a logged session, opened with the
\* resource form filled in and a category suggested
InitialStores ==
    {[tasks |-> {}, resources |-> {}, metrics |-> NoMetrics, logs |-> <<>>,
      category |-> EmptyString],
     [tasks |-> {Task1, Task2}, resources |-> {Res1},
      metrics |-> Metrics(TRUE, 0, 0, <<>>, NullValue), logs |-> <<Log1>>,
      category |-> <<"Mathematics">>]}

\* what the user gives a field: a date for the due date, a text otherwise
InputValues(name) ==
    IF name = "taskDueDate" THEN {<<"d2">>} ELSE TypedValues

\* the fields of the task form
StoreInputs == {"taskInput", "taskDueDate"}

\* db && userId (and isAuthReady, set together with userId)
Ready == auth = "ready"

\* fetchedTasks.sort((a, b) => new Date(a.createdAt) - new Date(b.createdAt))
RECURSIVE SortByCreatedAt(_)
SortByCreatedAt(docs) ==
    IF docs = {} THEN <<>>
    ELSE LET first == CHOOSE t \in docs : \A u \in docs : t.createdAt <= u.createdAt
         IN <<first>> \o SortByCreatedAt(docs \ {first})

\* snapshot.docs of a collection: the documents in the order of their ids
RECURSIVE SnapshotDocs(_)
SnapshotDocs(docs) ==
    IF docs = {} THEN <<>>
    ELSE LET first == CHOOSE t \in docs : \A u \in docs : t.id <= u.id
         IN <<first>> \o SnapshotDocs(docs \ {first})

IsCompleted(task) == task.completed

\* fetchedTasks.filter(task => task.completed).length
CompletedCount(ts) == Len(SelectSeq(ts, IsCompleted))

\* { type: 'task', ...task }
TaskEvent(task) ==
    [type |-> "task", id |-> task.id, createdAt |-> task.createdAt,
     text |-> task.text, completed |-> task.completed, dueDate |-> task.dueDate]

\* { type: 'pomodoro', ...log }: the type of the log, spread last, wins
LogEvent(log) == [type |-> log.type, date |-> log.date, duration |-> log.duration]

HasDueDate(task) == Truthy(task.dueDate)

\* newCalendarEvents of the tasks listener
TaskCalendarEvents(ts) ==
    LET dated == SelectSeq(ts, HasDueDate)
        keys == {DateKey(dated[i].dueDate) : i \in 1..Len(dated)}
    IN [k \in keys |->
          LET On(task) == DateKey(task.dueDate) = k
              onDate == SelectSeq(dated, On)
          IN [i \in 1..Len(onDate) |-> TaskEvent(onDate[i])]]

\* newCalendarEvents of the pomodoro logs listener
LogCalendarEvents(ls) ==
    LET keys == {DateKey(ls[i].date) : i \in 1..Len(ls)}
    IN [k \in keys |->
          LET On(log) == DateKey(log.date) = k
              onDate == SelectSeq(ls, On)
          IN [i \in 1..Len(onDate) |-> LogEvent(onDate[i])]]

\* ({ ...prevEvents, ...newCalendarEvents })
Spread(prevEvents, newCalendarEvents) ==
    [k \in DOMAIN prevEvents \cup DOMAIN newCalendarEvents |->
        IF k \in DOMAIN newCalendarEvents THEN newCalendarEvents[k]
        ELSE prevEvents[k]]

\* fetchedLogs.reduce((sum, log) => sum + (log.duration || 25), 0)
RECURSIVE SumDurations(_)
SumDurations(ls) ==
    IF ls = <<>> THEN 0
    ELSE (IF Head(ls).duration = 0 THEN 25 ELSE Head(ls).duration)
            + SumDurations(Tail(ls))

\* a store operation that has not settled: its number, what it does, the
\* function that issued it, whether a catch awaits it, and what it captured
Op(n, kind, caller, caught) ==
    [n |-> n, kind |-> kind, caller |-> caller, caught |-> caught,
     id |-> 0, completed |-> FALSE, badges |-> <<>>, noneCompleted |-> FALSE,
     points |-> 0, text |-> EmptyString, dueDate |-> NullValue,
     url |-> EmptyString, category |-> EmptyString, streaks |-> 0,
     lastStudyDate |-> NullValue, type |-> "none"]

\* updateUserMetrics({ points: newPoints })
UpdatePoints(n, newPoints) ==
    [Op(n, "updatePoints", "updateUserMetrics", TRUE) EXCEPT !.points = newPoints]

\* updateUserMetrics({ badges: newBadges })
UpdateBadges(n, newBadges) ==
    [Op(n, "updateBadges", "updateUserMetrics", TRUE) EXCEPT !.badges = newBadges]

\* updateUserMetrics({ streaks: newStreaks, lastStudyDate: today.toISOString() })
UpdateStreaks(n, newStreaks, today) ==
    [Op(n, "updateStreaks", "updateUserMetrics", TRUE) EXCEPT
        !.streaks = newStreaks, !.lastStudyDate = today]

\* addDoc(collection(db, ...pomodoro_logs), { date, duration, type }) of the
\* timer effect, neither awaited nor caught
AddLog(n, date, type) ==
    [Op(n, "addLog", "timer", FALSE) EXCEPT !.dueDate = date, !.type = type]

\* console.error(...) of the catch block of each operation
ErrorMessage(kind) ==
    CASE kind = "addTask" -> "Error adding document: "
      [] kind = "toggleTask" -> "Error updating document: "
      [] kind = "deleteTask" -> "Error deleting document: "
      [] kind = "addResource" -> "Error adding resource: "
      [] kind = "deleteResource" -> "Error deleting resource: "
      [] kind \in {"updatePoints", "updateBadges", "updateStreaks"} ->
            "Error updating user metrics:"
      [] OTHER -> ""

uiVars == <<tasks, totalTasksCompleted, calendarEvents, resources, userPoints,
            studyStreaks, earnedBadges, lastStudyDate, totalStudyTime>>

contentVars == <<sTasks, sResources, sMetrics, sLogs>>

generationVars == <<loading, editedOutputs, quizzes, currentQuizIndex, requests,
                    mounted>>

\* onAuthStateChanged calls back: userId and isAuthReady are set, the
\* subscriptions effect runs and each listener is given a first snapshot
AuthReady ==
    /\ auth = "pending"
    /\ auth' = "ready"
    /\ fresh' = [l \in Listeners |-> TRUE]
    /\ UNCHANGED <<contentVars, pending, nextOp, uiVars, logged>>
    /\ UNCHANGED <<renderVars, timerVars, voiceVars, geminiVars>>

\* initializeApp or the sign-in throws: catch, console.error
InitializeFirebaseFails ==
    /\ auth = "pending"
    /\ auth' = "failed"
    /\ logged' = Append(logged, "Error initializing Firebase:")
    /\ UNCHANGED <<contentVars, fresh, pending, nextOp, uiVars>>
    /\ UNCHANGED <<renderVars, timerVars, voiceVars, geminiVars>>

\* the tasks listener is given the current documents
DeliverTasks ==
    /\ Ready /\ fresh["tasks"]
    /\ LET fetchedTasks == SortByCreatedAt(sTasks)
       IN /\ tasks' = fetchedTasks
          /\ totalTasksCompleted' = CompletedCount(fetchedTasks)
          /\ calendarEvents' = Spread(calendarEvents, TaskCalendarEvents(fetchedTasks))
    /\ fresh' = [fresh EXCEPT !["tasks"] = FALSE]
    /\ UNCHANGED <<auth, contentVars, pending, nextOp, resources, userPoints,
                   studyStreaks, earnedBadges, lastStudyDate, totalStudyTime, logged>>
    /\ UNCHANGED <<renderVars, timerVars, voiceVars, geminiVars>>

\* the resources listener is given the current documents
DeliverResources ==
    /\ Ready /\ fresh["resources"]
    /\ resources' = SnapshotDocs(sResources)
    /\ fresh' = [fresh EXCEPT !["resources"] = FALSE]
    /\ UNCHANGED <<auth, contentVars, pending, nextOp, tasks, totalTasksCompleted,
                   calendarEvents, userPoints, studyStreaks, earnedBadges,
                   lastStudyDate, totalStudyTime, logged>>
    /\ UNCHANGED <<renderVars, timerVars, voiceVars, geminiVars>>

\* the metrics listener is given the current document, or none: it then
\* calls setDoc, neither awaited nor caught
DeliverMetrics ==
    /\ Ready /\ fresh["metrics"]
    /\ fresh' = [fresh EXCEPT !["metrics"] = FALSE]
    /\ IF sMetrics.exists
       THEN /\ userPoints' = sMetrics.points
            /\ studyStreaks' = sMetrics.streaks
            /\ earnedBadges' = sMetrics.badges
            /\ lastStudyDate' = OrNull(sMetrics.lastStudyDate)
            /\ UNCHANGED <<pending, nextOp>>
       ELSE /\ pending' = pending \cup {Op(0, "setDoc", "unsubscribeMetrics", FALSE)}
            /\ UNCHANGED <<nextOp, userPoints, studyStreaks, earnedBadges,
                           lastStudyDate>>
    /\ UNCHANGED <<auth, contentVars, tasks, totalTasksCompleted, calendarEvents,
                   resources, totalStudyTime, logged>>
    /\ UNCHANGED <<renderVars, timerVars, voiceVars, geminiVars>>

\* the pomodoro logs listener is given the current documents
DeliverLogs ==
    /\ Ready /\ fresh["pomodoro_logs"]
    /\ calendarEvents' = Spread(calendarEvents, LogCalendarEvents(sLogs))
    /\ totalStudyTime' = SumDurations(sLogs)
    /\ fresh' = [fresh EXCEPT !["pomodoro_logs"] = FALSE]
    /\ UNCHANGED <<auth, contentVars, pending, nextOp, tasks, totalTasksCompleted,
                   resources, userPoints, studyStreaks, earnedBadges, lastStudyDate,
                   logged>>
    /\ UNCHANGED <<renderVars, timerVars, voiceVars, geminiVars>>

\* what a click leaves alone when its handler returns at its guard
ClickOnly ==
    /\ UNCHANGED <<auth, contentVars, fresh, pending, nextOp, uiVars, logged>>
    /\ UNCHANGED <<renderVars, timerVars, voiceVars, inputs, outputs, uncaught,
                   generationVars>>

\* what a click leaves alone when its handler issues op
Issue(op) ==
    /\ nextOp < MaxOps
    /\ pending' = pending \cup {op}
    /\ nextOp' = op.n
    /\ UNCHANGED <<auth, contentVars, fresh, uiVars, logged>>
    /\ UNCHANGED <<renderVars, timerVars, voiceVars, inputs, outputs, uncaught,
                   generationVars>>

\* handleAddTask up to await addDoc(...)
handleAddTask ==
    /\ events < MaxEvents
    /\ events' = events + 1
    /\ IF Trim(inputs["taskInput"]) = EmptyString \/ ~Ready
       THEN ClickOnly
       ELSE Issue([Op(nextOp + 1, "addTask", "handleAddTask", TRUE) EXCEPT
                      !.text = inputs["taskInput"],
                      !.dueDate = OrNull(inputs["taskDueDate"])])

\* handleToggleTask(task.id, task.completed) of the i-th task shown, up to
\* await updateDoc(...); earnedBadges and tasks are those of this render
handleToggleTask(i) ==
    /\ i \in 1..Len(tasks)
    /\ events < MaxEvents
    /\ events' = events + 1
    /\ IF ~Ready
       THEN ClickOnly
       ELSE Issue([Op(nextOp + 1, "toggleTask", "handleToggleTask", TRUE) EXCEPT
                      !.id = tasks[i].id,
                      !.completed = tasks[i].completed,
                      !.badges = earnedBadges,
                      !.noneCompleted = (CompletedCount(tasks) = 0)])

\* handleDeleteTask(task.id) of the i-th task shown, up to await deleteDoc(...)
handleDeleteTask(i) ==
    /\ i \in 1..Len(tasks)
    /\ events < MaxEvents
    /\ events' = events + 1
    /\ IF ~Ready
       THEN ClickOnly
       ELSE Issue([Op(nextOp + 1, "deleteTask", "handleDeleteTask", TRUE) EXCEPT
                      !.id = tasks[i].id])

\* handleAddResource up to await addDoc(...)
handleAddResource ==
    /\ events < MaxEvents
    /\ events' = events + 1
    /\ IF \/ Trim(inputs["resourceLink"]) = EmptyString
          \/ Trim(inputs["resourceTitle"]) = EmptyString
          \/ ~Ready
       THEN ClickOnly
       ELSE Issue([Op(nextOp + 1, "addResource", "handleAddResource", TRUE) EXCEPT
                      !.text = inputs["resourceTitle"],
                      !.url = inputs["resourceLink"],
                      !.category =
                          IF Truthy(outputs["suggestedResourceCategory"])
                          THEN outputs["suggestedResourceCategory"]
                          ELSE <<"Uncategorized">>])

\* handleDeleteResource(res.id) of the i-th resource shown, up to await
\* deleteDoc(...)
handleDeleteResource(i) ==
    /\ i \in 1..Len(resources)
    /\ events < MaxEvents
    /\ events' = events + 1
    /\ IF ~Ready
       THEN ClickOnly
       ELSE Issue([Op(nextOp + 1, "deleteResource", "handleDeleteResource", TRUE)
                      EXCEPT !.id = resources[i].id])

\* the id the store gives the document added by op
NewId(op) == InitialDocs + op.n

\* what a settled operation leaves alone on the page
SettleOnly ==
    /\ UNCHANGED <<renderVars, timerVars, voiceVars, events, generationVars>>

\* addDoc of handleAddTask resolves: setTaskInput(''), setTaskDueDate('')
AddTaskResolves(op) ==
    /\ op \in pending /\ op.kind = "addTask"
    /\ sTasks' = sTasks \cup {[id |-> NewId(op), createdAt |-> NewId(op),
                               text |-> op.text, completed |-> FALSE,
                               dueDate |-> op.dueDate]}
    /\ fresh' = [fresh EXCEPT !["tasks"] = TRUE]
    /\ pending' = pending \ {op}
    /\ inputs' = [inputs EXCEPT !["taskInput"] = EmptyString,
                                !["taskDueDate"] = EmptyString]
    /\ UNCHANGED <<auth, sResources, sMetrics, sLogs, nextOp, uiVars, logged>>
    /\ UNCHANGED <<outputs, uncaught>>
    /\ SettleOnly

\* updateDoc of handleToggleTask resolves; if the task was not completed:
\* addPoints(10), whose updater stores the points and may award '100 Points',
\* then the 'First Task Complete' badge
ToggleTaskResolves(op) ==
    /\ op \in pending /\ op.kind = "toggleTask"
    /\ \E t \in sTasks : t.id = op.id
    /\ sTasks' = {IF t.id = op.id THEN [t EXCEPT !.completed = ~op.completed] ELSE t :
                     t \in sTasks}
    /\ fresh' = [fresh EXCEPT !["tasks"] = TRUE]
    /\ LET newPoints == userPoints + 10
           hundred == /\ ~op.completed
                      /\ newPoints >= 100
                      /\ ~Includes(op.badges, "100 Points")
           first == /\ ~op.completed
                    /\ ~Includes(op.badges, "First Task Complete")
                    /\ op.noneCompleted
           badges1 == IF hundred THEN Append(earnedBadges, "100 Points")
                      ELSE earnedBadges
           badges2 == IF first THEN Append(badges1, "First Task Complete")
                      ELSE badges1
           n1 == nextOp + 1
           n2 == IF hundred THEN n1 + 1 ELSE n1
           n3 == IF first THEN n2 + 1 ELSE n2
       IN IF op.completed
          THEN /\ pending' = pending \ {op}
               /\ UNCHANGED <<nextOp, userPoints, earnedBadges>>
          ELSE /\ userPoints' = newPoints
               /\ earnedBadges' = badges2
               /\ nextOp' = n3
               /\ pending' = (pending \ {op})
                     \cup {UpdatePoints(n1, newPoints)}
                     \cup (IF hundred THEN {UpdateBadges(n2, badges1)} ELSE {})
                     \cup (IF first THEN {UpdateBadges(n3, badges2)} ELSE {})
    /\ UNCHANGED <<auth, sResources, sMetrics, sLogs, tasks, totalTasksCompleted,
                   calendarEvents, resources, studyStreaks, lastStudyDate,
                   totalStudyTime, logged>>
    /\ UNCHANGED <<inputs, outputs, uncaught>>
    /\ SettleOnly

\* deleteDoc of handleDeleteTask resolves
DeleteTaskResolves(op) ==
    /\ op \in pending /\ op.kind = "deleteTask"
    /\ sTasks' = {t \in sTasks : t.id # op.id}
    /\ fresh' = [fresh EXCEPT !["tasks"] = fresh["tasks"] \/ sTasks' # sTasks]
    /\ pending' = pending \ {op}
    /\ UNCHANGED <<auth, sResources, sMetrics, sLogs, nextOp, uiVars, logged>>
    /\ UNCHANGED <<inputs, outputs, uncaught>>
    /\ SettleOnly

\* addDoc of handleAddResource resolves: setResourceTitle(''),
\* setResourceLink(''), setSuggestedResourceCategory('')
AddResourceResolves(op) ==
    /\ op \in pending /\ op.kind = "addResource"
    /\ sResources' = sResources \cup {[id |-> NewId(op), title |-> op.text,
                                       url |-> op.url, category |-> op.category,
                                       createdAt |-> NewId(op)]}
    /\ fresh' = [fresh EXCEPT !["resources"] = TRUE]
    /\ pending' = pending \ {op}
    /\ inputs' = [inputs EXCEPT !["resourceTitle"] = EmptyString,
                                !["resourceLink"] = EmptyString]
    /\ outputs' = [outputs EXCEPT !["suggestedResourceCategory"] = EmptyString]
    /\ UNCHANGED <<auth, sTasks, sMetrics, sLogs, nextOp, uiVars, logged>>
    /\ UNCHANGED uncaught
    /\ SettleOnly

\* deleteDoc of handleDeleteResource resolves
DeleteResourceResolves(op) ==
    /\ op \in pending /\ op.kind = "deleteResource"
    /\ sResources' = {r \in sResources : r.id # op.id}
    /\ fresh' = [fresh EXCEPT !["resources"] =
                    fresh["resources"] \/ sResources' # sResources]
    /\ pending' = pending \ {op}
    /\ UNCHANGED <<auth, sTasks, sMetrics, sLogs, nextOp, uiVars, logged>>
    /\ UNCHANGED <<inputs, outputs, uncaught>>
    /\ SettleOnly

\* updateDoc of updateUserMetrics resolves: the document exists
UpdateMetricsResolves(op) ==
    /\ op \in pending
    /\ op.kind \in {"updatePoints", "updateBadges", "updateStreaks"}
    /\ sMetrics.exists
    /\ sMetrics' = CASE op.kind = "updatePoints" ->
                          [sMetrics EXCEPT !.points = op.points]
                     [] op.kind = "updateBadges" ->
                          [sMetrics EXCEPT !.badges = op.badges]
                     [] OTHER ->
                          [sMetrics EXCEPT !.streaks = op.streaks,
                                           !.lastStudyDate = op.lastStudyDate]
    /\ fresh' = [fresh EXCEPT !["metrics"] = TRUE]
    /\ pending' = pending \ {op}
    /\ UNCHANGED <<auth, sTasks, sResources, sLogs, nextOp, uiVars, logged>>
    /\ UNCHANGED <<inputs, outputs, uncaught>>
    /\ SettleOnly

\* setDoc of the metrics listener resolves
SetDocResolves(op) ==
    /\ op \in pending /\ op.kind = "setDoc"
    /\ sMetrics' = Metrics(TRUE, 0, 0, <<>>, NullValue)
    /\ fresh' = [fresh EXCEPT !["metrics"] = TRUE]
    /\ pending' = pending \ {op}
    /\ UNCHANGED <<auth, sTasks, sResources, sLogs, nextOp, uiVars, logged>>
    /\ UNCHANGED <<inputs, outputs, uncaught>>
    /\ SettleOnly

RejectsAndClears(op) ==
    /\ op \in pending
    /\ pending' = pending \ {op}
    /\ IF op.caught
       THEN /\ logged' = Append(logged, ErrorMessage(op.kind))
            /\ UNCHANGED uncaught
       ELSE /\ uncaught' = uncaught \cup {op.caller}
            /\ UNCHANGED logged
    /\ inputs' = [inputs EXCEPT !["taskInput"] = EmptyString,
                                !["taskDueDate"] = EmptyString]
    /\ UNCHANGED <<auth, contentVars, fresh, nextOp, uiVars>>
    /\ UNCHANGED outputs
    /\ SettleOnly

\* a store operation rejects: the catch block of its caller logs it, or
\* nothing catches it
Rejects(op) ==
    /\ op \in pending
    /\ pending' = pending \ {op}
    /\ IF op.caught
       THEN /\ logged' = Append(logged, ErrorMessage(op.kind))
            /\ UNCHANGED uncaught
       ELSE /\ uncaught' = uncaught \cup {op.caller}
            /\ UNCHANGED logged
    /\ UNCHANGED <<auth, contentVars, fresh, nextOp, uiVars>>
    /\ UNCHANGED <<inputs, outputs>>
    /\ SettleOnly

\* the renderer is not running
RendererIdle ==
    /\ text = <<>>
    /\ katexLoaded = TRUE
    /\ pc = "done"
    /\ lastIndex = 0
    /\ parts = <<>>
    /\ result = <<>>
    /\ katexCalls = <<>>
    /\ katexThrew = <<>>
    /\ console = <<>>
    /\ history = <<>>

\* the page over a store that holds the documents of earlier sessions
InitStore ==
    /\ RendererIdle
    /\ \E store \in InitialStores :
          /\ inputs = [n \in InputNames |->
                          IF Truthy(store.category)
                                /\ n \in {"resourceTitle", "resourceLink"}
                          THEN <<"a">> ELSE EmptyString]
          /\ outputs = [t \in Targets |->
                           IF t = "suggestedResourceCategory" THEN store.category
                           ELSE EmptyString]
          /\ StoreInit(store.tasks, store.resources, store.metrics, store.logs)
    /\ loading = [f \in Flags |-> FALSE]
    /\ editedOutputs = [t \in Targets |-> EmptyString]
    /\ quizzes = <<>>
    /\ currentQuizIndex = 0
    /\ requests = {}
    /\ events = 0
    /\ mounted = FALSE
    /\ uncaught = {}
    /\ TimerInit
    /\ VoiceInit

NextStore ==
    \/ AuthReady
    \/ InitializeFirebaseFails
    \/ DeliverTasks
    \/ DeliverResources
    \/ DeliverMetrics
    \/ DeliverLogs
    \/ \E name \in StoreInputs : \E v \in InputValues(name) : TypeInput(name, v)
    \/ handleAddTask
    \/ \E i \in 1..Len(tasks) : handleToggleTask(i)
    \/ \E i \in 1..Len(tasks) : handleDeleteTask(i)
    \/ handleAddResource
    \/ \E i \in 1..Len(resources) : handleDeleteResource(i)
    \/ \E op \in pending : AddTaskResolves(op)
    \/ \E op \in pending : ToggleTaskResolves(op)
    \/ \E op \in pending : DeleteTaskResolves(op)
    \/ \E op \in pending : AddResourceResolves(op)
    \/ \E op \in pending : DeleteResourceResolves(op)
    \/ \E op \in pending : UpdateMetricsResolves(op)
    \/ \E op \in pending : SetDocResolves(op)
    \/ \E op \in pending : Rejects(op)

SpecStore == InitStore /\ [][NextStore]_vars

----------------------------------------------------------------------------
(* StudyAssistantPage: the Pomodoro timer, points, streaks and badges       *)

\* the calendar days, in order; a day has 24 hours
Days == <<"d0", "d1", "d2", "d3">>

DayNumber(day) == CHOOSE i \in 1..Len(Days) : Days[i] = day

\* the day of new Date()
Today == "d3"

\* new Date().toISOString()
Now == <<Today, "T", "10:00">>

\* today.setHours(0, 0, 0, 0); today.toISOString()
StartOfToday == <<Today, "T", "00:00">>

\* lastDate.setHours(0, 0, 0, 0);
\* Math.ceil(Math.abs(today.getTime() - lastDate.getTime()) / (1000*60*60*24))
DiffDays(last) ==
    LET lastDay == DayNumber(DateKey(last)[1])
        today == DayNumber(Today)
    IN IF today >= lastDay THEN today - lastDay ELSE lastDay - today

\* the page once the first snapshot of each listener is processed, over a
\* store that holds the tasks ts and the metrics document m
StoreOpened(ts, m) ==
    /\ auth = "ready"
    /\ sTasks = ts
    /\ sResources = {}
    /\ sMetrics = m
    /\ sLogs = <<>>
    /\ fresh = [l \in Listeners |-> FALSE]
    /\ pending = {}
    /\ nextOp = 0
    /\ tasks = SortByCreatedAt(ts)
    /\ totalTasksCompleted = CompletedCount(SortByCreatedAt(ts))
    /\ calendarEvents = TaskCalendarEvents(SortByCreatedAt(ts))
    /\ resources = <<>>
    /\ userPoints = m.points
    /\ studyStreaks = m.streaks
    /\ earnedBadges = m.badges
    /\ lastStudyDate = OrNull(m.lastStudyDate)
    /\ totalStudyTime = 0
    /\ logged = <<>>

\* what the timer buttons leave alone
TimerClick ==
    /\ events < MaxEvents
    /\ events' = events + 1
    /\ UNCHANGED <<inputs, loading, outputs, editedOutputs, quizzes,
                   currentQuizIndex, requests, mounted, uncaught>>
    /\ UNCHANGED <<renderVars, storeVars, voiceVars>>

\* the Start button, disabled while isActive
startTimer ==
    /\ ~isActive
    /\ isActive' = TRUE
    /\ UNCHANGED <<timerMinutes, timerSeconds, isBreak, currentSessionType>>
    /\ TimerClick

\* the Pause button, disabled unless isActive
pauseTimer ==
    /\ isActive
    /\ isActive' = FALSE
    /\ UNCHANGED <<timerMinutes, timerSeconds, isBreak, currentSessionType>>
    /\ TimerClick

resetTimerKeepsSession ==
    /\ isActive' = FALSE
    /\ timerMinutes' = 25
    /\ timerSeconds' = 0
    /\ UNCHANGED <<isBreak, currentSessionType>>
    /\ TimerClick

\* the Reset button: clearInterval and the five setters
resetTimer ==
    /\ isActive' = FALSE
    /\ isBreak' = FALSE
    /\ currentSessionType' = "Pomodoro"
    /\ timerMinutes' = 25
    /\ timerSeconds' = 0
    /\ TimerClick

NextSessionKeepsType(break) ==
    IF break
    THEN [currentSessionType |-> "Short Break", isBreak |-> FALSE,
          timerMinutes |-> 25]
    ELSE [currentSessionType |-> "Pomodoro", isBreak |-> TRUE,
          timerMinutes |-> 5]

\* "Session complete, switch to break or next pomodoro": the setters of
\* each branch
NextSession(break) ==
    IF break
    THEN [currentSessionType |-> "Pomodoro", isBreak |-> FALSE,
          timerMinutes |-> 25]
    ELSE [currentSessionType |-> "Short Break", isBreak |-> TRUE,
          timerMinutes |-> 5]

\* the interval callback at 00:00: setIsActive(false), addPoints(5),
\* updateStreaks(), addDoc of the log, the switch of the session and the
\* 'First Pomodoro' badge.  earnedBadges, lastStudyDate and totalStudyTime
\* are those of the render that created the interval, which is the latest:
\* they are dependencies of the effect.  The updaters append to the badges
\* in the order of the calls.
SessionComplete ==
    LET newPoints == userPoints + 5
        hundred == newPoints >= 100 /\ ~Includes(earnedBadges, "100 Points")
        hasLast == Truthy(lastStudyDate)
        diffDays == IF hasLast THEN DiffDays(lastStudyDate) ELSE 0
        consecutive == hasLast /\ diffDays = 1
        restart == ~hasLast \/ diffDays > 1
        newStreaks == IF consecutive THEN studyStreaks + 1
                      ELSE IF restart THEN 1 ELSE studyStreaks
        three == /\ consecutive
                 /\ newStreaks = 3
                 /\ ~Includes(earnedBadges, "3-Day Streak")
        firstPomodoro == /\ ~isBreak
                         /\ ~Includes(earnedBadges, "First Pomodoro")
                         /\ totalStudyTime < 25
        badges1 == IF hundred THEN Append(earnedBadges, "100 Points")
                   ELSE earnedBadges
        badges2 == IF three THEN Append(badges1, "3-Day Streak") ELSE badges1
        badges3 == IF firstPomodoro THEN Append(badges2, "First Pomodoro")
                   ELSE badges2
        n1 == nextOp + 1
        n2 == IF hundred THEN n1 + 1 ELSE n1
        n3 == IF consecutive \/ restart THEN n2 + 1 ELSE n2
        n4 == IF three THEN n3 + 1 ELSE n3
        n5 == n4 + 1
        n6 == IF firstPomodoro THEN n5 + 1 ELSE n5
    IN /\ isActive' = FALSE
       /\ userPoints' = newPoints
       /\ studyStreaks' = newStreaks
       /\ earnedBadges' = badges3
       /\ IF Ready
          THEN /\ nextOp' = n6
               /\ pending' = pending
                     \cup {UpdatePoints(n1, newPoints)}
                     \cup (IF hundred THEN {UpdateBadges(n2, badges1)} ELSE {})
                     \cup (IF consecutive \/ restart
                           THEN {UpdateStreaks(n3, newStreaks, StartOfToday)}
                           ELSE {})
                     \cup (IF three THEN {UpdateBadges(n4, badges2)} ELSE {})
                     \cup {AddLog(n5, Now, IF isBreak THEN "break" ELSE "pomodoro")}
                     \cup (IF firstPomodoro THEN {UpdateBadges(n6, badges3)}
                           ELSE {})
          ELSE UNCHANGED <<nextOp, pending>>
       /\ currentSessionType' = NextSession(isBreak).currentSessionType
       /\ isBreak' = NextSession(isBreak).isBreak
       /\ timerMinutes' = NextSession(isBreak).timerMinutes
       /\ timerSeconds' = 0
       /\ UNCHANGED <<auth, contentVars, fresh, tasks, totalTasksCompleted,
                      calendarEvents, resources, lastStudyDate, totalStudyTime,
                      logged>>

TickWhileInactive ==
    /\ IF timerSeconds = 0 /\ timerMinutes = 0
       THEN SessionComplete
       ELSE /\ timerSeconds' = IF timerSeconds = 0 THEN 59 ELSE timerSeconds - 1
            /\ timerMinutes' = IF timerSeconds = 0 THEN timerMinutes - 1
                               ELSE timerMinutes
            /\ UNCHANGED <<isActive, isBreak, currentSessionType, storeVars>>
    /\ UNCHANGED <<renderVars, geminiVars, voiceVars>>

\* the interval callback of the timer effect fires: the interval exists
\* while isActive, the effect clearing it otherwise
Tick ==
    /\ isActive
    /\ IF timerSeconds = 0 /\ timerMinutes = 0
       THEN SessionComplete
       ELSE /\ timerSeconds' = IF timerSeconds = 0 THEN 59 ELSE timerSeconds - 1
            /\ timerMinutes' = IF timerSeconds = 0 THEN timerMinutes - 1
                               ELSE timerMinutes
            /\ UNCHANGED <<isActive, isBreak, currentSessionType, storeVars>>
    /\ UNCHANGED <<renderVars, geminiVars, voiceVars>>

\* the metrics document of a user who has not studied yet
FreshMetrics == Metrics(TRUE, 0, 0, <<>>, NullValue)

\* the page before the sign-in has answered, or connected to the store of a
\* user who has not studied yet
InitTimer ==
    /\ RendererIdle
    /\ GeminiInit
    /\ TimerInit
    /\ VoiceInit
    /\ \/ StoreInit({}, {}, NoMetrics, <<>>)
       \/ StoreOpened({}, FreshMetrics)

NextTimer ==
    \/ startTimer
    \/ pauseTimer
    \/ resetTimer
    \/ Tick

SpecTimer == InitTimer /\ [][NextTimer]_vars

\* addDoc of the timer effect resolves
AddLogResolves(op) ==
    /\ op \in pending /\ op.kind = "addLog"
    /\ sLogs' = Append(sLogs, [date |-> op.dueDate, duration |-> 25,
                                type |-> op.type])
    /\ fresh' = [fresh EXCEPT !["pomodoro_logs"] = TRUE]
    /\ pending' = pending \ {op}
    /\ UNCHANGED <<auth, sTasks, sResources, sMetrics, nextOp, uiVars, logged>>
    /\ UNCHANGED <<inputs, outputs, uncaught>>
    /\ SettleOnly

\* the streak of a user who studied before
OpenedStreak == 1

\* the metrics documents of the users who open the page: one who has not
\* studied yet, and one with 95 points who last studied yesterday
SessionMetrics ==
    {FreshMetrics,
     Metrics(TRUE, 95, OpenedStreak, <<>>, <<"d2", "T", "00:00">>)}

\* the page of a user who has one task, has used the page (one click is
\* left) and is one second from the end of a Pomodoro
InitSession ==
    /\ RendererIdle
    /\ inputs = [n \in InputNames |-> EmptyString]
    /\ loading = [f \in Flags |-> FALSE]
    /\ outputs = [t \in Targets |-> EmptyString]
    /\ editedOutputs = [t \in Targets |-> EmptyString]
    /\ quizzes = <<>>
    /\ currentQuizIndex = 0
    /\ requests = {}
    /\ events = MaxEvents - 1
    /\ mounted = FALSE
    /\ uncaught = {}
    /\ VoiceInit
    /\ timerMinutes = 0
    /\ timerSeconds = 1
    /\ isActive = TRUE
    /\ isBreak = FALSE
    /\ currentSessionType = "Pomodoro"
    /\ \E m \in SessionMetrics : StoreOpened({Task1}, m)

NextSessions ==
    \/ Tick
    \/ startTimer
    \/ \E i \in 1..Len(tasks) : handleToggleTask(i)
    \/ DeliverMetrics
    \/ \E op \in pending : ToggleTaskResolves(op)
    \/ \E op \in pending : UpdateMetricsResolves(op)
    \/ \E op \in pending : AddLogResolves(op)

SpecSessions == InitSession /\ [][NextSessions]_vars

----------------------------------------------------------------------------
(* StudyAssistantPage: voice input.  The browser has webkitSpeechRecognition; *)
(* the recognition object listens for a single utterance (continuous is      *)
(* false): start, then a result or an error, then end.                       *)

\* the fields that have a microphone button
VoiceFields == {"noteInput", "studyGoalInput", "quizInput", "explanationQuestion"}

\* what the recognition object can hear
Transcripts == {<<"b">>}

Stage(name) == session.stage = name

\* what the voice handlers leave alone
VoiceOnly ==
    /\ UNCHANGED <<loading, outputs, editedOutputs, quizzes, currentQuizIndex,
                   requests, mounted>>
    /\ UNCHANGED <<renderVars, storeVars, timerVars>>

\* toggleListening(setTextInput) of the button of field: the recognition
\* object is created once, with the handlers of this call; then stop() if
\* isListening, start() otherwise.  start() on an object that has started
\* throws InvalidStateError.
toggleListening(field) ==
    /\ events < MaxEvents
    /\ events' = events + 1
    /\ recognitionRef' = IF recognitionRef = NoRecognition THEN field
                          ELSE recognitionRef
    /\ IF isListening
       THEN /\ session' = IF session = NoSession THEN session
                           ELSE [session EXCEPT !.stage = "stopping"]
            /\ UNCHANGED uncaught
       ELSE IF session = NoSession
            THEN /\ session' = [from |-> field, stage |-> "starting"]
                 /\ UNCHANGED uncaught
            ELSE /\ uncaught' = uncaught \cup {"toggleListening"}
                 /\ UNCHANGED session
    /\ UNCHANGED <<inputs, isListening>>
    /\ VoiceOnly

\* recognition.onstart
onstart ==
    /\ Stage("starting")
    /\ session' = [session EXCEPT !.stage = "listening"]
    /\ isListening' = TRUE
    /\ UNCHANGED <<inputs, events, uncaught, recognitionRef>>
    /\ VoiceOnly

\* recognition.onresult: setTextInput is the setter given to the call of
\* toggleListening that created the object
onresult(transcript) ==
    /\ Stage("listening") \/ Stage("stopping")
    /\ inputs' = [inputs EXCEPT ![recognitionRef] = transcript]
    /\ isListening' = FALSE
    /\ session' = [session EXCEPT !.stage = "ending"]
    /\ UNCHANGED <<events, uncaught, recognitionRef>>
    /\ VoiceOnly

\* recognition.onerror
onerror ==
    /\ session # NoSession /\ ~Stage("ending")
    /\ isListening' = FALSE
    /\ session' = [session EXCEPT !.stage = "ending"]
    /\ logged' = Append(logged, "Speech recognition error:")
    /\ UNCHANGED <<auth, contentVars, fresh, pending, nextOp, uiVars>>
    /\ UNCHANGED <<inputs, events, uncaught, recognitionRef>>
    /\ UNCHANGED <<loading, outputs, editedOutputs, quizzes, currentQuizIndex,
                   requests, mounted>>
    /\ UNCHANGED <<renderVars, timerVars>>

\* recognition.onend
onend ==
    /\ session # NoSession /\ ~Stage("starting")
    /\ isListening' = FALSE
    /\ session' = NoSession
    /\ UNCHANGED <<inputs, events, uncaught, recognitionRef>>
    /\ VoiceOnly

NextVoice ==
    \/ \E field \in VoiceFields : toggleListening(field)
    \/ onstart
    \/ \E transcript \in Transcripts : onresult(transcript)
    \/ onerror
    \/ onend

SpecVoice == InitPage /\ [][NextVoice]_vars

----------------------------------------------------------------------------
(* StudyAssistantPage: the flashcards *)

RecallLevels == {"easy", "medium", "hard"}

\* nextReviewDate.setDate(nextReviewDate.getDate() + daysToAdd);
\* nextReviewDate.toISOString(), today being d3
NextReview(recallLevel) ==
    CASE recallLevel = "easy" -> "d6T10:00"
      [] recallLevel = "medium" -> "d4T10:00"
      [] OTHER -> "d3T10:00"

\* recallLevel === 'easy' ? 15 : recallLevel === 'medium' ? 10 : 5
RecallPoints(recallLevel) ==
    CASE recallLevel = "easy" -> 15
      [] recallLevel = "medium" -> 10
      [] OTHER -> 5

\* a recall button is shown:
\* quizzes.length > 0 && currentQuizIndex < quizzes.length
CardShown == Len(quizzes) > 0 /\ currentQuizIndex < Len(quizzes)

\* the card of the recall: updatedQuizzes[currentQuizIndex] of a 0-based array
Recorded(cards, index, recallLevel) ==
    IF index + 1 \in DOMAIN cards
    THEN [cards EXCEPT ![index + 1].recall = recallLevel,
                       ![index + 1].nextReview = NextReview(recallLevel)]
    ELSE cards

\* addPoints(amount), called from a handler of the latest render
addPoints(amount) ==
    LET newPoints == userPoints + amount
        hundred == newPoints >= 100 /\ ~Includes(earnedBadges, "100 Points")
        badges1 == IF hundred THEN Append(earnedBadges, "100 Points")
                   ELSE earnedBadges
        n1 == nextOp + 1
        n2 == IF hundred THEN n1 + 1 ELSE n1
    IN /\ userPoints' = newPoints
       /\ earnedBadges' = badges1
       /\ IF Ready
          THEN /\ nextOp' = n2
               /\ pending' = pending
                     \cup {UpdatePoints(n1, newPoints)}
                     \cup (IF hundred THEN {UpdateBadges(n2, badges1)} ELSE {})
          ELSE UNCHANGED <<nextOp, pending>>

handleQuizRecallNoReset(recallLevel) ==
    /\ CardShown
    /\ events < MaxEvents
    /\ events' = events + 1
    /\ quizzes' = Recorded(quizzes, currentQuizIndex, recallLevel)
    /\ addPoints(RecallPoints(recallLevel))
    /\ currentQuizIndex' = currentQuizIndex + 1
    /\ UNCHANGED <<outputs, editedOutputs>>
    /\ UNCHANGED <<auth, contentVars, fresh, tasks, totalTasksCompleted,
                   calendarEvents, resources, studyStreaks, lastStudyDate,
                   totalStudyTime, logged>>
    /\ UNCHANGED <<inputs, loading, requests, mounted, uncaught>>
    /\ UNCHANGED <<renderVars, timerVars, voiceVars>>

\* handleQuizRecall(recallLevel) of a recall button
handleQuizRecall(recallLevel) ==
    /\ CardShown
    /\ events < MaxEvents
    /\ events' = events + 1
    /\ IF currentQuizIndex + 1 \in DOMAIN quizzes
       THEN /\ quizzes' = Recorded(quizzes, currentQuizIndex, recallLevel)
            /\ addPoints(RecallPoints(recallLevel))
       ELSE UNCHANGED <<quizzes, userPoints, earnedBadges, nextOp, pending>>
    /\ IF currentQuizIndex < Len(quizzes) - 1
       THEN /\ currentQuizIndex' = currentQuizIndex + 1
            /\ UNCHANGED <<outputs, editedOutputs>>
       ELSE /\ currentQuizIndex' = 0
            /\ outputs' = [outputs EXCEPT !["quizOutput"] = EmptyString]
            /\ editedOutputs' = [editedOutputs EXCEPT !["quizOutput"] = EmptyString]
    /\ UNCHANGED <<auth, contentVars, fresh, tasks, totalTasksCompleted,
                   calendarEvents, resources, studyStreaks, lastStudyDate,
                   totalStudyTime, logged>>
    /\ UNCHANGED <<inputs, loading, requests, mounted, uncaught>>
    /\ UNCHANGED <<renderVars, timerVars, voiceVars>>

\* the answer that holds two question-answer pairs
TwoCards == <<"Q: q1\nA: a1", "Q: q2\nA: a2">>

\* the page as opened, or showing the two cards generated from a text
InitQuiz ==
    /\ RendererIdle
    /\ StoreInit({}, {}, NoMetrics, <<>>)
    /\ TimerInit
    /\ VoiceInit
    /\ loading = [f \in Flags |-> FALSE]
    /\ requests = {}
    /\ events = 0
    /\ mounted = FALSE
    /\ uncaught = {}
    /\ currentQuizIndex = 0
    /\ \E shown \in BOOLEAN :
          /\ inputs = [n \in InputNames |->
                          IF shown /\ n = "quizInput" THEN <<"a">>
                          ELSE EmptyString]
          /\ outputs = [t \in Targets |->
                           IF shown /\ t = "quizOutput" THEN TwoCards
                           ELSE EmptyString]
          /\ editedOutputs = outputs
          /\ quizzes = IF shown THEN QuizPairs(TwoCards) ELSE <<>>

NextQuiz ==
    \/ \E v \in TypedValues : TypeInput("quizInput", v)
    \/ StartRequest("handleGenerateQuiz")
    \/ \E r \in requests : FetchRejects(r)
    \/ \E r \in requests, ok \in BOOLEAN : FetchResponds(r, ok)
    \/ \E r \in requests : ErrorResponse(r)
    \/ \E r \in requests, body \in Bodies : OkResponse(r, body)
    \/ \E recallLevel \in RecallLevels : handleQuizRecall(recallLevel)

SpecQuiz == InitQuiz /\ [][NextQuiz]_vars

----------------------------------------------------------------------------
(* Vocabulary of the properties *)

Returned == pc = "done" /\ katexLoaded

IsMath(s) == s.kind \in {"latex", "latex-error"}

IsPlain(s) == s.kind \in {"text-plain", "text-plain-end"}

Delimiter(displayMode) == IF displayMode THEN <<"$", "$">> ELSE <<"$">>

\* the literal text of a segment: the substring of a plain-text segment, the
\* content between its delimiters for a math segment
Literal(s) ==
    IF IsMath(s)
    THEN Delimiter(s.displayMode) \o s.content \o Delimiter(s.displayMode)
    ELSE s.content

RECURSIVE Concat(_)
Concat(ss) == IF ss = <<>> THEN <<>> ELSE Head(ss) \o Concat(Tail(ss))

Literals(ps) == [i \in 1..Len(ps) |-> Literal(ps[i])]

----------------------------------------------------------------------------
(* C1: with KaTeX present, the literal texts of the returned segments       *)
(* (math content re-wrapped in its delimiters), concatenated in order, are *)
(* the input text.                                                         *)
RoundTrip == Returned => Concat(Literals(result)) = text

RoundTripReached ==
    /\ Returned
    /\ Len(result) >= 3
    /\ \E i, j, k \in 1..Len(result) :
          /\ IsPlain(result[i])
          /\ IsMath(result[j]) /\ result[j].displayMode
          /\ IsMath(result[k]) /\ ~result[k].displayMode

(* C2: the returned segments start at strictly increasing offsets, do not  *)
(* overlap and cover [0, length(text)) without a gap.                      *)
SegmentsCover ==
    Returned =>
        /\ (result = <<>>) <=> (Length(text) = 0)
        /\ \A i \in 1..Len(result) :
              /\ Len(Literal(result[i])) > 0
              /\ result[i].key = (IF i = 1 THEN 0
                                  ELSE result[i - 1].key + Len(Literal(result[i - 1])))
              /\ i = Len(result) =>
                    result[i].key + Len(Literal(result[i])) = Length(text)
              /\ i > 1 => result[i - 1].key < result[i].key

SegmentsCoverReached ==
    /\ Returned
    /\ Len(result) >= 4
    /\ IsPlain(result[1])
    /\ IsPlain(result[Len(result)])

----------------------------------------------------------------------------
(* Segments as the specification names them *)

PlainText(c) == [math |-> FALSE, content |-> c, displayMode |-> FALSE]

Math(c, d) == [math |-> TRUE, content |-> c, displayMode |-> d]

Segment(s) == IF IsMath(s) THEN Math(s.content, s.displayMode)
              ELSE PlainText(s.content)

Segments(ps) == [i \in 1..Len(ps) |-> Segment(ps[i])]

\* PlainText(c), left out when c is empty
PlainTextIfAny(c) == IF c = <<>> THEN <<>> ELSE <<PlainText(c)>>

DollarCount(s) == Cardinality({i \in 1..Len(s) : s[i] = "$"})

HasDoubleDollar(s) == \E i \in 1..(Len(s) - 1) : s[i] = "$" /\ s[i + 1] = "$"

EndsWithDollar(s) == s # <<>> /\ s[Len(s)] = "$"

\* text = A $$ B $$ C with the opening $$ at offset p and the closing at q
IsDisplayForm(t, p, q) ==
    /\ p + 2 <= q /\ q + 2 <= Length(t)
    /\ Substring(t, p, p + 2) = <<"$", "$">>
    /\ Substring(t, q, q + 2) = <<"$", "$">>

\* text = A $ B $ C with the opening $ at offset p and the closing at q
IsInlineForm(t, p, q) ==
    /\ p + 1 <= q /\ q + 1 <= Length(t)
    /\ CharAt(t, p) = "$"
    /\ CharAt(t, q) = "$"

Offsets == 0..Length(text)

----------------------------------------------------------------------------
(* C3 as stated: for every way of reading the text as A$$B$$C with no $$   *)
(* in B, the segments are PlainText(A), Math(B, true), PlainText(C).       *)
DisplayFormThreeSegments ==
    Returned =>
        \A p, q \in Offsets :
            (/\ IsDisplayForm(text, p, q)
             /\ ~HasDoubleDollar(Substring(text, p + 2, q)))
            => Segments(result) =
                  <<PlainText(Substring(text, 0, p)),
                    Math(Substring(text, p + 2, q), TRUE),
                    PlainText(Substring(text, q + 2, Length(text)))>>

(* C3 amended: when moreover A has no $, B does not end with $ and C has   *)
(* at most one $, the segments are PlainText(A), Math(B, true),            *)
(* PlainText(C), an empty A or C giving no segment.                        *)
DisplayFormSegments ==
    Returned =>
        \A p, q \in Offsets :
            (/\ IsDisplayForm(text, p, q)
             /\ DollarCount(Substring(text, 0, p)) = 0
             /\ ~HasDoubleDollar(Substring(text, p + 2, q))
             /\ ~EndsWithDollar(Substring(text, p + 2, q))
             /\ DollarCount(Substring(text, q + 2, Length(text))) <= 1)
            => Segments(result) =
                  PlainTextIfAny(Substring(text, 0, p))
                  \o <<Math(Substring(text, p + 2, q), TRUE)>>
                  \o PlainTextIfAny(Substring(text, q + 2, Length(text)))

DisplayFormReached ==
    /\ Returned
    /\ \E p, q \in Offsets :
          /\ IsDisplayForm(text, p, q)
          /\ p > 0 /\ q > p + 2 /\ q + 2 < Length(text)
          /\ DollarCount(Substring(text, 0, p)) = 0
          /\ ~HasDoubleDollar(Substring(text, p + 2, q))
          /\ ~EndsWithDollar(Substring(text, p + 2, q))
          /\ DollarCount(Substring(text, q + 2, Length(text))) <= 1
    /\ Len(result) = 3

NoDollarOneSegment ==
    (Returned /\ DollarCount(text) = 0)
    => (Segments(result) = <<PlainText(text)>> /\ katexCalls = <<>>)

(* C5 amended: a non-empty text without $ gives exactly one PlainText      *)
(* segment equal to the text, the empty text gives no segment, and the     *)
(* typesetter is not called.                                               *)
NoDollarSegments ==
    (Returned /\ DollarCount(text) = 0)
    => (Segments(result) = PlainTextIfAny(text) /\ katexCalls = <<>>)

NoDollarReached ==
    /\ Returned
    /\ DollarCount(text) = 0
    /\ Length(text) >= 2
    /\ Len(result) = 1

----------------------------------------------------------------------------
(* Delimiters of the text, read off the text alone *)

DoubleDollarAt(t, k) ==
    k + 2 <= Length(t) /\ CharAt(t, k) = "$" /\ CharAt(t, k + 1) = "$"

DollarAt(t, k) == k + 1 <= Length(t) /\ CharAt(t, k) = "$"

\* the offsets >= from where a $$ starts
DoubleDollarsFrom(t, from) == {j \in from..Length(t) : DoubleDollarAt(t, j)}

\* the offsets >= from of a $
DollarsFrom(t, from) == {j \in from..Length(t) : DollarAt(t, j)}

MathAt(ps, k) == \E i \in 1..Len(ps) : IsMath(ps[i]) /\ ps[i].key = k

(* C6: an opening $ without a later $, or an opening $$ without a later    *)
(* $$, starts no Math segment.                                             *)
UnmatchedOpenerIsPlain ==
    Returned =>
        \A k \in Offsets :
            /\ (DollarAt(text, k) /\ DollarsFrom(text, k + 1) = {})
                    => ~MathAt(result, k)
            /\ (DoubleDollarAt(text, k) /\ DoubleDollarsFrom(text, k + 2) = {})
                    => ~MathAt(result, k)

(* C7: a text with exactly one $ gives a single PlainText segment equal to *)
(* the text.                                                               *)
SingleDollarIsPlain ==
    (Returned /\ DollarCount(text) = 1)
    => (Segments(result) = <<PlainText(text)>> /\ katexCalls = <<>>)

SingleDollarReached ==
    /\ Returned
    /\ DollarCount(text) = 1
    /\ Length(text) >= 3
    /\ CharAt(text, 1) = "$"
    /\ Len(result) = 1

(* C8: where the scan meets a $$ that has a later closing $$, a display    *)
(* Math segment starts there: no inline Math segment starts there and the  *)
(* position is not passed over as plain text.                              *)
DisplayPrecedence ==
    Returned =>
        \A i \in 1..Len(result) :
            LET s == result[i]
                Closed(k) == /\ DoubleDollarAt(text, k)
                             /\ DoubleDollarsFrom(text, k + 2) # {}
            IN /\ (IsMath(s) /\ Closed(s.key)) => s.displayMode
               /\ IsPlain(s) =>
                    \A k \in s.key..(s.key + Len(s.content) - 1) : ~Closed(k)

DisplayPrecedenceReached ==
    /\ Returned
    /\ \E i \in 1..Len(result) :
          /\ IsMath(result[i]) /\ result[i].displayMode
          /\ result[i].key > 0
          /\ result[i].content # <<>>

(* C9: a Math segment ends at the first closing delimiter of its kind      *)
(* after its opening delimiter, and the first $ of the text that has a     *)
(* later $ starts a Math segment whatever the characters in between,       *)
(* newlines included.                                                      *)
NonGreedy ==
    Returned =>
        /\ \A i \in 1..Len(result) :
              LET s == result[i]
                  end == s.key + Len(Literal(s))
              IN IsMath(s) =>
                    IF s.displayMode
                    THEN end - 2 = SetMin(DoubleDollarsFrom(text, s.key + 2))
                    ELSE end - 1 = SetMin(DollarsFrom(text, s.key + 1))
        /\ DollarCount(text) >= 2 => MathAt(result, SetMin(DollarsFrom(text, 0)))

NonGreedyReached ==
    /\ Returned
    /\ \E i \in 1..Len(result) :
          LET s == result[i]
          IN /\ IsMath(s)
             /\ \E n \in 1..Len(s.content) : s.content[n] = "\n"
             /\ DollarsFrom(text, s.key + Len(Literal(s))) # {}

(* C10: the content of a display Math segment has no $$ and the content of *)
(* an inline Math segment has no $.                                        *)
ContentHasNoDelimiter ==
    Returned =>
        \A i \in 1..Len(result) :
            LET s == result[i]
            IN IsMath(s) =>
                  IF s.displayMode THEN ~HasDoubleDollar(s.content)
                  ELSE DollarCount(s.content) = 0

ContentHasNoDelimiterReached ==
    /\ Returned
    /\ \E i \in 1..Len(result) :
          LET s == result[i]
          IN /\ IsMath(s) /\ s.displayMode
             /\ DollarCount(s.content) = 1
             /\ DollarsFrom(text, s.key + Len(Literal(s))) # {}

----------------------------------------------------------------------------
(* Failures of the typesetter, absence of KaTeX, repeated calls *)

MathSegments(ps) == SelectSeq(ps, IsMath)

\* a span as it is when its typesetting succeeds
Rendered(s) == IF s.kind = "latex-error" THEN [s EXCEPT !.kind = "latex"] ELSE s

\* the parts of a call on t in which no typesetting fails
RECURSIVE PartsWithoutFailure(_, _)
PartsWithoutFailure(t, from) ==
    LET match == Exec(t, from)
    IN IF match = Null THEN RemainingText(t, from)
       ELSE PrecedingText(t, from, match.index) \o <<RenderedSpan(match)>>
            \o PartsWithoutFailure(t, NextLastIndex(match))

(* C11: the Math segments whose typesetting throws, and only those, are    *)
(* error placeholders showing the whole delimited substring; apart from    *)
(* that the segments are those of a call in which nothing fails.           *)
FailureIsolation ==
    Returned =>
        /\ Len(MathSegments(result)) = Len(katexThrew)
        /\ \A n \in 1..Len(katexThrew) :
              LET s == MathSegments(result)[n]
              IN /\ (s.kind = "latex-error") <=> katexThrew[n]
                 /\ s.fullMatch = Substring(text, s.key, s.key + Len(s.fullMatch))
                 /\ s.fullMatch = Literal(s)
        /\ [i \in 1..Len(result) |-> Rendered(result[i])]
              = PartsWithoutFailure(text, 0)

FailureIsolationReached ==
    /\ Returned
    /\ \E i, j \in 1..Len(katexThrew) : katexThrew[i] /\ ~katexThrew[j]
    /\ \E i \in 1..Len(result) : IsPlain(result[i])
    /\ \E i \in 1..Len(result) :
          result[i].kind = "latex-error" /\ result[i].displayMode

(* C12: without KaTeX the call returns the whole text as one plain output, *)
(* logs one warning, scans nothing and calls no typesetter.                *)
KatexAbsentPlain ==
    (pc = "done" /\ ~katexLoaded) =>
        /\ Len(result) = 1
        /\ result[1].kind = "raw" /\ result[1].content = text
        /\ console = <<"warn">>
        /\ katexCalls = <<>>
        /\ parts = <<>> /\ lastIndex = 0

KatexAbsentReached ==
    /\ pc = "done" /\ ~katexLoaded
    /\ DollarCount(text) >= 2
    /\ Length(text) >= 3

(* C13: the typesetter is called once per Math segment, in document order, *)
(* with the content and display mode of that segment, and not otherwise.   *)
TypesetterCalls ==
    LET ms == MathSegments(IF pc = "done" THEN result ELSE parts)
    IN katexCalls = [n \in 1..Len(ms) |-> <<ms[n].content, ms[n].displayMode>>]

TypesetterCallsReached ==
    /\ Returned
    /\ Len(katexCalls) >= 2
    /\ \E i, j \in 1..Len(katexCalls) : i < j /\ katexCalls[i][2] /\ ~katexCalls[j][2]
    /\ \E i \in 1..Len(result) : IsPlain(result[i])

\* two returned calls that one typesetter can have served: equal arguments
\* had equal outcomes
SameTypesetter(a, b) ==
    /\ a.katexLoaded = b.katexLoaded
    /\ \A i \in 1..Len(a.calls), j \in 1..Len(b.calls) :
          a.calls[i] = b.calls[j] => a.threw[i] = b.threw[j]

(* C14: two calls on the same text served by the same typesetter return    *)
(* the same segments, whatever calls were made before or between them.     *)
Restartable ==
    \A i, j \in 1..Len(history) :
        (history[i].text = history[j].text /\ SameTypesetter(history[i], history[j]))
        => history[i].result = history[j].result

RestartableReached ==
    /\ Len(history) = 3
    /\ history[1].text = history[3].text
    /\ history[2].text # history[1].text
    /\ SameTypesetter(history[1], history[3])
    /\ \A i \in 1..3 : history[i].katexLoaded
    /\ history[1].calls # <<>>

(* C15: a text made of plain text, a display block, plain text, an inline  *)
(* block and plain text gives these five segments in this order; the       *)
(* example gives "Solve ", x^2, " for x, given ", a=1 and ".".             *)
FiveSegments ==
    Returned =>
        /\ \A p1, p2, p3 \in PlainPieces, b1, b2 \in Pieces :
              text = Composed(p1, b1, p2, b2, p3) =>
                  Segments(result) = <<PlainText(p1), Math(b1, TRUE), PlainText(p2),
                                       Math(b2, FALSE), PlainText(p3)>>
        /\ text = ExampleText =>
              Segments(result) =
                  <<PlainText(<<"S", "o", "l", "v", "e", " ">>),
                    Math(<<"x", "^", "2">>, TRUE),
                    PlainText(<<" ", "f", "o", "r", " ", "x", ",", " ",
                                "g", "i", "v", "e", "n", " ">>),
                    Math(<<"a", "=", "1">>, FALSE),
                    PlainText(<<".">>)>>

FiveSegmentsReached ==
    /\ Returned
    /\ text = ExampleText
    /\ Len(result) = 5

----------------------------------------------------------------------------
(* The page: text generation *)

\* the calls of callGeminiAPI made with the setter of flag f, not yet returned
InFlight(f) == {r \in requests : HandlerFlag(r.handler) = f}

(* C16: when a call of callGeminiAPI returns, on whichever path, its       *)
(* loading flag is false; once no generation request is in flight every    *)
(* loading flag is false.                                                  *)
LoadingCleared ==
    /\ [](requests = {} => \A f \in Flags : ~loading[f])
    /\ [][\A r \in requests :
            (\A q \in requests' : q.handler # r.handler)
                => ~loading'[HandlerFlag(r.handler)]]_vars

LoadingClearedReached ==
    /\ requests = {}
    /\ \A f \in Flags : ~loading[f]
    /\ outputs["dailyTip"] = Failed
    /\ outputs["progressInsight"] \in AiTexts \cup {NoResponse, Undefined}

(* C17: callGeminiAPI always gives its caller a string, and no caller      *)
(* throws: no promise of a handler is rejected and every generated output  *)
(* is a string.                                                            *)
AlwaysAString ==
    /\ uncaught = {}
    /\ \A t \in Targets : outputs[t] # Undefined /\ editedOutputs[t] # Undefined

----------------------------------------------------------------------------
(* The page: the document store *)

\* the listener l has processed a snapshot in this step
Delivered(l) == fresh[l] /\ ~fresh'[l]

IsTaskEvent(event) == event.type = "task"

\* the task events of a calendar, by date, dates without a task left out
TaskEventsIn(calendar) ==
    LET keys == {k \in DOMAIN calendar : SelectSeq(calendar[k], IsTaskEvent) # <<>>}
    IN [k \in keys |-> SelectSeq(calendar[k], IsTaskEvent)]

\* the session events of a calendar, by date
LogEventsIn(calendar) ==
    LET IsLogEvent(event) == ~IsTaskEvent(event)
        keys == {k \in DOMAIN calendar : SelectSeq(calendar[k], IsLogEvent) # <<>>}
    IN [k \in keys |-> SelectSeq(calendar[k], IsLogEvent)]

(* C18: after a listener has processed a snapshot, the state derived from  *)
(* its collection is the value computed from that snapshot alone: the task *)
(* list, the number of completed tasks and the task events of the calendar *)
(* (a deleted task is no longer in the calendar), the resource list, the   *)
(* points, streak, badges and last study date of an existing metrics       *)
(* document, the study time and the session events of the calendar.        *)
SnapshotAlone ==
    [][/\ Delivered("tasks") =>
            /\ tasks' = SortByCreatedAt(sTasks)
            /\ totalTasksCompleted' = CompletedCount(SortByCreatedAt(sTasks))
            /\ TaskEventsIn(calendarEvents')
                  = TaskCalendarEvents(SortByCreatedAt(sTasks))
       /\ Delivered("resources") => resources' = SnapshotDocs(sResources)
       /\ Delivered("metrics") /\ sMetrics.exists =>
            /\ userPoints' = sMetrics.points
            /\ studyStreaks' = sMetrics.streaks
            /\ earnedBadges' = sMetrics.badges
            /\ lastStudyDate' = sMetrics.lastStudyDate
       /\ Delivered("pomodoro_logs") =>
            /\ totalStudyTime' = SumDurations(sLogs)
            /\ LogEventsIn(calendarEvents') = LogCalendarEvents(sLogs)]_vars

\* the functions that call the document store
StoreCallers == {"unsubscribeMetrics", "updateUserMetrics", "handleAddTask",
                 "handleToggleTask", "handleDeleteTask", "handleAddResource",
                 "handleDeleteResource"}

(* C19: no rejection of a call to the document store escapes the function  *)
(* that made the call.                                                     *)
AllFailuresCaught == \A caller \in StoreCallers : caller \notin uncaught

\* the catch block of a store call of this kind has run in this step
RejectedNow(kind) == logged' = Append(logged, ErrorMessage(kind))

\* the store after this step holds what op asked for
TookEffect(op) ==
    CASE op.kind = "addTask" -> \E t \in sTasks' : t.id = NewId(op)
      [] op.kind = "toggleTask" ->
            \E t \in sTasks' : t.id = op.id /\ t.completed = ~op.completed
      [] op.kind = "deleteTask" -> \A t \in sTasks' : t.id # op.id
      [] op.kind = "addResource" -> \E r \in sResources' : r.id = NewId(op)
      [] op.kind = "deleteResource" -> \A r \in sResources' : r.id # op.id
      [] op.kind = "updatePoints" -> sMetrics'.points = op.points
      [] op.kind = "updateBadges" -> sMetrics'.badges = op.badges
      [] OTHER -> TRUE

\* a click or a change of a field is handled in this step
UserEvent == events' # events

(* C20: a rejected addDoc of handleAddTask or handleAddResource leaves the *)
(* fields of the form as they are; a rejected updateDoc of                 *)
(* handleToggleTask adds no points and awards no badge; a rejected         *)
(* deleteDoc changes no list; an operation that settles without effect on  *)
(* the store is logged; and while db or userId is not set a click on these *)
(* handlers changes nothing.                                               *)
FailedOperationNoOp ==
    [][/\ RejectedNow("addTask") \/ RejectedNow("addResource") =>
            /\ inputs' = inputs
            /\ outputs' = outputs
       /\ RejectedNow("toggleTask") =>
            /\ userPoints' = userPoints
            /\ earnedBadges' = earnedBadges
            /\ pending' \subseteq pending
       /\ RejectedNow("deleteTask") \/ RejectedNow("deleteResource") =>
            /\ tasks' = tasks
            /\ resources' = resources
            /\ calendarEvents' = calendarEvents
       /\ \A op \in pending \ pending' :
            op.caught => TookEffect(op) \/ RejectedNow(op.kind)
       /\ \A op \in pending \ pending' :
            ~TookEffect(op) => UNCHANGED <<contentVars, uiVars, inputs, outputs>>
       /\ UserEvent /\ ~Ready /\ inputs' = inputs =>
            UNCHANGED <<contentVars, pending, nextOp, uiVars, outputs, logged>>]_vars

FailedOperationReached ==
    /\ logged = <<"Error adding document: ">>
    /\ inputs["taskInput"] = <<"a">>
    /\ inputs["taskDueDate"] = <<"d2">>
    /\ pending = {}
    /\ Ready

----------------------------------------------------------------------------
(* The page: requests overtaken by the user *)

\* the fields the prompt of r was built from have been changed since
Superseded(r) == Prompt(r.handler) # r.prompt

\* callGeminiAPI returns to the caller of r in this step
ReturnsNow(r) == r \in requests /\ \A q \in requests' : q.handler # r.handler

(* C21: when the fields a request was made from have been changed while it *)
(* was in flight, its late response leaves the state those changes set as  *)
(* it is: the text fields, and the suggested category cleared by a change  *)
(* of the title or the link of the resource.                               *)
StaleDisregarded ==
    [][\A r \in requests :
          ReturnsNow(r) /\ Superseded(r) =>
              /\ inputs' = inputs
              /\ outputs'["suggestedResourceCategory"]
                    = outputs["suggestedResourceCategory"]]_vars

----------------------------------------------------------------------------
(* The renderer: termination *)

(* C22: each iteration of the scan loop moves lastIndex forward by at      *)
(* least two characters and never past the end of the text, a call returns *)
(* at most length(text) + 1 segments, and every call returns.              *)
ScanTerminates ==
    /\ [][pc = "loop" /\ pc' = "loop" => lastIndex' >= lastIndex + 2]_vars
    /\ [](lastIndex <= Length(text))
    /\ [](pc = "done" => Len(result) <= Length(text) + 1)
    /\ <>(pc = "done")

ScanTerminatesReached ==
    /\ Returned
    /\ Len(katexCalls) = 2
    /\ Len(result) = 2
    /\ lastIndex = Length(text)

----------------------------------------------------------------------------
(* The Pomodoro timer *)

\* the remaining time, in seconds
Remaining == 60 * timerMinutes + timerSeconds

AtZero == timerMinutes = 0 /\ timerSeconds = 0

\* the timer changes and no button was pressed: the interval fired
Ticked == events' = events /\ timerVars' # timerVars

(* C23: a tick at 00:00 of a running timer stops it and switches the session, *)
(* from a Pomodoro to a short break of 05:00 and from a break to a Pomodoro   *)
(* of 25:00; a stopped timer does not count down; and currentSessionType is   *)
(* 'Short Break' exactly when isBreak.                                        *)
SessionAlternation ==
    /\ [][Ticked /\ isActive /\ AtZero =>
             /\ ~isActive'
             /\ timerSeconds' = 0
             /\ IF isBreak
                THEN /\ ~isBreak'
                     /\ currentSessionType' = "Pomodoro"
                     /\ timerMinutes' = 25
                ELSE /\ isBreak'
                     /\ currentSessionType' = "Short Break"
                     /\ timerMinutes' = 5]_vars
    /\ [][~isActive /\ ~isActive' => Remaining' >= Remaining]_vars
    /\ [](currentSessionType = "Short Break" <=> isBreak)

\* a Pomodoro and the break after it have both completed
SessionAlternationReached ==
    /\ ~isActive
    /\ ~isBreak
    /\ currentSessionType = "Pomodoro"
    /\ timerMinutes = 25
    /\ userPoints = 10

(* C24: seconds stay within 0..59 and minutes within 0..25 (0..5 during a     *)
(* break); a tick of a running timer that is not at 00:00 takes one second    *)
(* off the remaining time; no tick changes the time of a stopped timer.       *)
TimerRange ==
    /\ [](/\ timerSeconds \in 0..59
          /\ timerMinutes \in 0..(IF isBreak THEN 5 ELSE 25))
    /\ [][Ticked /\ isActive /\ ~AtZero => Remaining' = Remaining - 1]_vars
    /\ [][~isActive => ~Ticked]_vars

\* a break is running and has crossed a minute
TimerRangeReached ==
    /\ isActive
    /\ isBreak
    /\ timerMinutes = 3
    /\ timerSeconds = 59

(* C25: resetTimer leaves a stopped Pomodoro of 25:00 whatever the state it   *)
(* is called in, changes neither points, streak, badges nor the store, and    *)
(* the timer then stands still until startTimer.                              *)
ResetEffect ==
    /\ [][resetTimer =>
             /\ ~isActive'
             /\ ~isBreak'
             /\ currentSessionType' = "Pomodoro"
             /\ timerMinutes' = 25
             /\ timerSeconds' = 0
             /\ UNCHANGED storeVars]_vars
    /\ [][~isActive /\ ~AtZero /\ isActive' = isActive =>
             Remaining' = Remaining \/ resetTimer]_vars

\* a running break was reset
ResetEffectReached ==
    /\ ~isActive
    /\ ~isBreak
    /\ timerMinutes = 25
    /\ timerSeconds = 0
    /\ userPoints = 5
    /\ events = 3

----------------------------------------------------------------------------
(* Badges and streaks *)

(* C26: earnedBadges never holds the same badge twice, whatever the order of  *)
(* task toggles, completed sessions, settled store updates and snapshots.     *)
NoDuplicateBadges ==
    \A i, j \in 1..Len(earnedBadges) :
        i # j => earnedBadges[i] # earnedBadges[j]

(* C29: within one day the streak, on the page and in the store, is raised    *)
(* by at most one, however many sessions complete and whenever the snapshots  *)
(* of the metrics arrive.                                                     *)
StreakOncePerDay ==
    /\ studyStreaks <= OpenedStreak + 1
    /\ sMetrics.streaks <= OpenedStreak + 1

----------------------------------------------------------------------------
(* The calendar *)

\* calendarEvents[d] holds the event, d being the date of value
OnCalendar(value, event) ==
    /\ DateKey(value) \in DOMAIN calendarEvents
    /\ Includes(calendarEvents[DateKey(value)], event)

(* C27: once the tasks listener and the pomodoro logs listener have both      *)
(* processed the latest snapshot, the calendar holds, on its date, every task *)
(* that has a due date and every logged session.                              *)
CalendarComplete ==
    Ready /\ ~fresh["tasks"] /\ ~fresh["pomodoro_logs"] =>
        /\ \A task \in sTasks :
              HasDueDate(task) => OnCalendar(task.dueDate, TaskEvent(task))
        /\ \A i \in 1..Len(sLogs) :
              OnCalendar(sLogs[i].date, LogEvent(sLogs[i]))

----------------------------------------------------------------------------
(* Voice input *)

(* C28: a transcript recognised during a listening session started from the   *)
(* microphone button of a field is written to that field and to no other.     *)
TranscriptToItsField ==
    [][\A name \in InputNames :
          session # NoSession /\ inputs'[name] # inputs[name] =>
              name = session.from]_vars

----------------------------------------------------------------------------
(* The flashcards *)

(* C30: while there are cards the index points at one of them;                *)
(* handleQuizRecall records the recall level on the current card and on no    *)
(* other, then moves to the next card, or from the last card back to the      *)
(* first, clearing quizOutput.                                                *)
QuizCursor ==
    /\ [](Len(quizzes) > 0 =>
            currentQuizIndex >= 0 /\ currentQuizIndex < Len(quizzes))
    /\ [][\A recallLevel \in RecallLevels :
             handleQuizRecall(recallLevel) =>
                /\ Len(quizzes') = Len(quizzes)
                /\ \A i \in 1..Len(quizzes) :
                      /\ quizzes'[i].question = quizzes[i].question
                      /\ quizzes'[i].answer = quizzes[i].answer
                      /\ quizzes'[i].recall =
                            IF i = currentQuizIndex + 1 THEN recallLevel
                            ELSE quizzes[i].recall
                /\ IF currentQuizIndex + 1 < Len(quizzes)
                   THEN /\ currentQuizIndex' = currentQuizIndex + 1
                        /\ outputs' = outputs
                   ELSE /\ currentQuizIndex' = 0
                        /\ outputs'["quizOutput"] = EmptyString]_vars

\* both cards were recalled, the second being the last
QuizCursorReached ==
    /\ Len(quizzes) = 2
    /\ quizzes[1].recall = "hard"
    /\ quizzes[2].recall = "easy"
    /\ currentQuizIndex = 0
    /\ outputs["quizOutput"] = EmptyString
    /\ userPoints = 20
====
